---- MODULE Spec2Model ----
(***************************************************************************)
(* JDE E1 configuration research service: the stdio adapter                *)
(* (src/src/server.py) and the HTTP adapter (src/src/http_server.py) over  *)
(* the static knowledge store (knowledge_base.py, environment_config.py,   *)
(* troubleshooting.py).                                                    *)
(*                                                                         *)
(* Encoding of Python/JSON values:                                         *)
(*   str            a TLA+ string                                          *)
(*   dict           a function with a domain of strings (<< >> when empty) *)
(*   list           a sequence                                             *)
(*   None / null    the reserved string None, which no input contains      *)
(*   a JSON number  the reserved string JsonNumber (a value with no .lower) *)
(*   a subtree of the store whose inside no handler inspects               *)
(*                  Leaf(path), a record naming the subtree by its path    *)
(*   json.dumps followed by the client's decoding                          *)
(*                  the value itself (both keep keys and values of the     *)
(*                  JSON-typed values built here); the wrappers the        *)
(*                  transports add (TextContent, {"result": ...}, HTTP     *)
(*                  status) are modelled explicitly.                       *)
(***************************************************************************)
EXTENDS Integers, Sequences, FiniteSets, TLC

VARIABLES
    API_TOKEN,      \* the bearer token read from the environment at start
    IMPORT_STATUS,  \* http_server.py: which data modules it could import
    store,          \* the knowledge trees of the data modules
    request,        \* the request being answered (NoRequest when waiting)
    response,       \* what the adapter sent back for it
    queried,        \* the store trees its handler read
    raised,         \* whether its handler raised an exception (caught or not)
    performed,      \* HTTP: the calls its handler made, in order
    fresh           \* the answers of the just-started process to the
                    \* reference requests, kept for comparison

vars == <<API_TOKEN, IMPORT_STATUS, store, request, response, queried, raised, performed, fresh>>

(***************************************************************************)
(* Python values and string operations                                     *)
(***************************************************************************)

None == "<None>"

JsonNumber == "<5>"

EmptyDict == << >>

Leaf(path) == [leaf |-> path]

\* the keys of a dict
Keys(d) == IF d = EmptyDict THEN {} ELSE DOMAIN d

\* dict.get(key, default)
Get(d, key, default) == IF key \in Keys(d) THEN d[key] ELSE default

\* d[key] = value on a dict (a new binding or an overwrite)
SetItem(d, key, value) ==
    [k \in Keys(d) \cup {key} |-> IF k = key THEN value ELSE d[k]]

RECURSIVE AssignAt(_, _, _, _)
\* the dict d after x[key] = value, x being the dict found in d along path
AssignAt(d, path, key, value) ==
    IF path = << >> THEN SetItem(d, key, value)
    ELSE [k \in Keys(d) |-> IF k = Head(path) THEN AssignAt(d[k], Tail(path), key, value)
                                              ELSE d[k]]

RECURSIVE StoreAfter(_, _)
\* The trees after a handler's item assignments, in order: an assignment
\* into a dict of the store changes the tree that holds it, one into a dict
\* the handler built changes no tree.
StoreAfter(trees, assignments) ==
    IF assignments = << >> THEN trees
    ELSE LET a == Head(assignments)
         IN  IF a.target.heap = "store"
             THEN StoreAfter(AssignAt(trees, a.target.path, a.key, a.value), Tail(assignments))
             ELSE StoreAfter(trees, Tail(assignments))

UpperChars == <<"A","B","C","D","E","F","G","H","I","J","K","L","M",
                "N","O","P","Q","R","S","T","U","V","W","X","Y","Z">>

LowerChars == <<"a","b","c","d","e","f","g","h","i","j","k","l","m",
                "n","o","p","q","r","s","t","u","v","w","x","y","z">>

LowerChar(c) ==
    IF \E i \in 1..26 : UpperChars[i] = c
    THEN LowerChars[CHOOSE i \in 1..26 : UpperChars[i] = c]
    ELSE c

RECURSIVE Lower(_)
\* str.lower()
Lower(s) ==
    IF Len(s) = 0 THEN ""
    ELSE LowerChar(SubSeq(s, 1, 1)) \o Lower(SubSeq(s, 2, Len(s)))

IsSpace(c) == c \in {" ", "\t", "\n"}

RECURSIVE SplitFrom(_, _, _)
\* the scan of str.split(): i is the next position, cur the token being read
SplitFrom(s, i, cur) ==
    IF i > Len(s)
    THEN IF cur = "" THEN << >> ELSE <<cur>>
    ELSE LET c == SubSeq(s, i, i) IN
         IF IsSpace(c)
         THEN IF cur = "" THEN SplitFrom(s, i + 1, "")
              ELSE <<cur>> \o SplitFrom(s, i + 1, "")
         ELSE SplitFrom(s, i + 1, cur \o c)

\* str.split() with no separator: maximal runs of non-whitespace
Split(s) == SplitFrom(s, 1, "")

\* w in s, for strings
Contains(s, w) ==
    \E i \in 1..(Len(s) - Len(w) + 1) : SubSeq(s, i, i + Len(w) - 1) = w

\* s.startswith(p)
StartsWith(s, p) == Len(s) >= Len(p) /\ SubSeq(s, 1, Len(p)) = p

\* s[n:]
SliceFrom(s, n) == IF Len(s) <= n THEN "" ELSE SubSeq(s, n + 1, Len(s))

(***************************************************************************)
(* The knowledge store.  Keys are kept down to the depth the handlers      *)
(* look at; what lies below is a Leaf naming the subtree.                  *)
(***************************************************************************)

INSTALLATION_PREREQUISITES ==
    [deployment_server |->
        [windows |-> Leaf("prerequisites/deployment_server/windows"),
         linux   |-> Leaf("prerequisites/deployment_server/linux")],
     enterprise_server |->
        [windows |-> Leaf("prerequisites/enterprise_server/windows")],
     html_server |->
        [windows |-> Leaf("prerequisites/html_server/windows")],
     database |->
        [sql_server |-> Leaf("prerequisites/database/sql_server"),
         oracle_db  |-> Leaf("prerequisites/database/oracle_db")]]

INSTALLATION_SEQUENCE ==
    [production      |-> <<Leaf("sequence/production")>>,
     test_py         |-> <<Leaf("sequence/test_py")>>,
     development     |-> <<Leaf("sequence/development")>>,
     standalone_demo |-> <<Leaf("sequence/standalone_demo")>>]

ENVIRONMENT_CONFIG ==
    [PD920_production |->
        [path_code        |-> Leaf("environment/PD920/path_code"),
         environment_name |-> Leaf("environment/PD920/environment_name"),
         description      |-> Leaf("environment/PD920/description"),
         release          |-> Leaf("environment/PD920/release"),
         data_sources     |-> Leaf("environment/PD920/data_sources"),
         server_map       |-> Leaf("environment/PD920/server_map"),
         ocm_mappings     |-> Leaf("environment/PD920/ocm_mappings"),
         best_practices   |-> Leaf("environment/PD920/best_practices"),
         security_level   |-> Leaf("environment/PD920/security_level"),
         change_control   |-> Leaf("environment/PD920/change_control")],
     PY920_test |->
        [path_code        |-> Leaf("environment/PY920/path_code"),
         environment_name |-> Leaf("environment/PY920/environment_name"),
         description      |-> Leaf("environment/PY920/description"),
         release          |-> Leaf("environment/PY920/release"),
         data_sources     |-> Leaf("environment/PY920/data_sources"),
         best_practices   |-> Leaf("environment/PY920/best_practices"),
         security_level   |-> Leaf("environment/PY920/security_level"),
         change_control   |-> Leaf("environment/PY920/change_control")],
     DV920_development |->
        [path_code         |-> Leaf("environment/DV920/path_code"),
         environment_name  |-> Leaf("environment/DV920/environment_name"),
         description       |-> Leaf("environment/DV920/description"),
         release           |-> Leaf("environment/DV920/release"),
         data_sources      |-> Leaf("environment/DV920/data_sources"),
         development_tools |-> Leaf("environment/DV920/development_tools"),
         best_practices    |-> Leaf("environment/DV920/best_practices"),
         security_level    |-> Leaf("environment/DV920/security_level"),
         change_control    |-> Leaf("environment/DV920/change_control")]]

CENTRALIZED_CONFIGURATION ==
    [overview        |-> Leaf("centralized/overview"),
     setup           |-> Leaf("centralized/setup"),
     inheritance     |-> Leaf("centralized/inheritance"),
     troubleshooting |-> Leaf("centralized/troubleshooting")]

SERVER_MANAGER_CONFIG ==
    [deployment_server |->
        [initial_setup |->
            [description |-> Leaf("server_manager/deployment_server/initial_setup/description"),
             steps       |-> <<Leaf("server_manager/deployment_server/initial_setup/steps")>>],
         package_deployment |->
            [description |-> Leaf("server_manager/deployment_server/package_deployment/description"),
             steps       |-> <<Leaf("server_manager/deployment_server/package_deployment/steps")>>]],
     enterprise_server |->
        [initial_setup |->
            [description |-> Leaf("server_manager/enterprise_server/initial_setup/description"),
             steps       |-> <<Leaf("server_manager/enterprise_server/initial_setup/steps")>>],
         kernel_configuration |->
            [JDENET   |-> Leaf("server_manager/enterprise_server/kernel_configuration/JDENET"),
             JDEQUEUE |-> Leaf("server_manager/enterprise_server/kernel_configuration/JDEQUEUE"),
             JDEIPC   |-> Leaf("server_manager/enterprise_server/kernel_configuration/JDEIPC")]],
     html_server |->
        [initial_setup |->
            [description |-> Leaf("server_manager/html_server/initial_setup/description"),
             steps       |-> <<Leaf("server_manager/html_server/initial_setup/steps")>>],
         ports        |-> Leaf("server_manager/html_server/ports"),
         jvm_settings |-> Leaf("server_manager/html_server/jvm_settings")]]

ESU_ASU_REQUIREMENTS ==
    [orchestrator |-> Leaf("esu_asu/orchestrator"),
     ux_one       |-> Leaf("esu_asu/ux_one"),
     cafe_one     |-> Leaf("esu_asu/cafe_one"),
     e1_page      |-> Leaf("esu_asu/e1_page"),
     mobile       |-> Leaf("esu_asu/mobile")]

\* An issue keeps its symptom text; its other entries (error_messages,
\* causes, diagnostic_steps, resolution, log_files) are the Leaf "detail".
Issue(symptom, path) == [symptom |-> symptom, detail |-> Leaf(path)]

TROUBLESHOOTING_GUIDE ==
    [deployment_server |-> [common_issues |->
        <<Issue("Package build fails", "troubleshooting/deployment_server/1"),
          Issue("Server Manager won't start", "troubleshooting/deployment_server/2"),
          Issue("ESU/ASU deployment fails", "troubleshooting/deployment_server/3")>>],
     html_server |-> [common_issues |->
        <<Issue("Cannot access web client", "troubleshooting/html_server/1"),
          Issue("Slow web client performance", "troubleshooting/html_server/2"),
          Issue("Session timeout issues", "troubleshooting/html_server/3")>>],
     enterprise_server |-> [common_issues |->
        <<Issue("Batch jobs not running", "troubleshooting/enterprise_server/1"),
          Issue("JDENET kernel crashes", "troubleshooting/enterprise_server/2")>>],
     database |-> [common_issues |->
        <<Issue("Database connection timeouts", "troubleshooting/database/1"),
          Issue("Table conversion errors", "troubleshooting/database/2")>>]]

LOG_ANALYSIS ==
    [jde_log            |-> Leaf("log_analysis/jde_log"),
     jas_log            |-> Leaf("log_analysis/jas_log"),
     weblogic_log       |-> Leaf("log_analysis/weblogic_log"),
     server_manager_log |-> Leaf("log_analysis/server_manager_log"),
     package_build_log  |-> Leaf("log_analysis/package_build_log")]

CONFIGURATION_UTILITIES ==
    [overview         |-> Leaf("utilities/overview"),
     business_data    |-> Leaf("utilities/business_data"),
     task_views       |-> Leaf("utilities/task_views"),
     roles            |-> Leaf("utilities/roles"),
     security         |-> Leaf("utilities/security"),
     program_versions |-> Leaf("utilities/program_versions")]

\* The trees as the data modules define them at load time.
LoadedStore ==
    [INSTALLATION_PREREQUISITES |-> INSTALLATION_PREREQUISITES,
     INSTALLATION_SEQUENCE      |-> INSTALLATION_SEQUENCE,
     ENVIRONMENT_CONFIG         |-> ENVIRONMENT_CONFIG,
     CENTRALIZED_CONFIGURATION  |-> CENTRALIZED_CONFIGURATION,
     SERVER_MANAGER_CONFIG      |-> SERVER_MANAGER_CONFIG,
     ESU_ASU_REQUIREMENTS       |-> ESU_ASU_REQUIREMENTS,
     TROUBLESHOOTING_GUIDE      |-> TROUBLESHOOTING_GUIDE,
     LOG_ANALYSIS               |-> LOG_ANALYSIS,
     CONFIGURATION_UTILITIES    |-> CONFIGURATION_UTILITIES]

\* The data module that defines each tree.
ModuleOf ==
    [INSTALLATION_PREREQUISITES |-> "knowledge_base",
     INSTALLATION_SEQUENCE      |-> "knowledge_base",
     ENVIRONMENT_CONFIG         |-> "environment_config",
     CENTRALIZED_CONFIGURATION  |-> "environment_config",
     SERVER_MANAGER_CONFIG      |-> "environment_config",
     ESU_ASU_REQUIREMENTS       |-> "environment_config",
     TROUBLESHOOTING_GUIDE      |-> "troubleshooting",
     LOG_ANALYSIS               |-> "troubleshooting",
     CONFIGURATION_UTILITIES    |-> "troubleshooting"]

\* server.py imports the data modules unconditionally: a tree it names is
\* the loaded tree.
StdioTree(tree) == store[tree]

\* http_server.py starts every tree as {} and replaces it by the loaded tree
\* only when the import of its module succeeded.
HttpTree(tree) == IF IMPORT_STATUS[ModuleOf[tree]] THEN store[tree] ELSE EmptyDict

(***************************************************************************)
(* server.py: the tool registry of the stdio adapter                       *)
(***************************************************************************)

\* Tool, had the registry taken every declared property as required
ToolRequireAll(name, properties, required) ==
    [name |-> name,
     inputSchema |-> [type |-> "object", properties |-> properties,
                      required |-> required \o
                          SelectSeq(<<"platform", "component", "operation", "tools_release",
                                      "config_area", "doc_type", "environment", "issue_type">>,
                                    LAMBDA f : f \in DOMAIN properties
                                               /\ f \notin {required[i] : i \in DOMAIN required})]]

Tool(name, properties, required) ==
    [name |-> name,
     inputSchema |-> [type |-> "object", properties |-> properties, required |-> required]]

\* Tool descriptions and property descriptions are left out.
list_tools ==
    <<Tool("research_installation_prerequisites",
           [component |-> [type |-> "string",
                           enum |-> <<"deployment_server", "enterprise_server", "html_server", "database", "all">>],
            platform  |-> [type |-> "string",
                           enum |-> <<"windows", "linux", "aix">>,
                           default |-> "windows"]],
           <<"component">>),
      Tool("get_installation_sequence",
           [environment_type |-> [type |-> "string",
                                  enum |-> <<"production", "test_py", "development", "standalone_demo">>]],
           <<"environment_type">>),
      Tool("get_environment_configuration",
           [environment |-> [type |-> "string",
                             enum |-> <<"PD920_production", "PY920_test", "DV920_development">>],
            component   |-> [type |-> "string",
                             enum |-> <<"path_codes", "data_sources", "ocm_mappings", "server_map", "all">>,
                             default |-> "all"]],
           <<"environment">>),
      Tool("research_server_manager_config",
           [config_area |-> [type |-> "string",
                             enum |-> <<"deployment_server", "enterprise_server", "html_server", "batch_server", "logic_server">>],
            operation   |-> [type |-> "string",
                             enum |-> <<"initial_setup", "add_environment", "package_deployment", "esus_asus", "kernel_configuration">>,
                             default |-> "initial_setup"]],
           <<"config_area">>),
      Tool("get_centralized_configuration_guide",
           [scope |-> [type |-> "string",
                       enum |-> <<"overview", "setup", "inheritance", "troubleshooting">>]],
           <<"scope">>),
      Tool("diagnose_configuration_issue",
           [symptom     |-> [type |-> "string"],
            component   |-> [type |-> "string",
                             enum |-> <<"deployment_server", "enterprise_server", "html_server", "database", "client">>],
            environment |-> [type |-> "string"]],
           <<"symptom", "component">>),
      Tool("lookup_esu_asu_requirements",
           [feature_area  |-> [type |-> "string",
                               enum |-> <<"orchestrator", "ux_one", "cafe_one", "e1_page", "mobile", "general">>],
            tools_release |-> [type |-> "string", default |-> "9.2.7"]],
           <<"feature_area">>),
      Tool("get_weblogic_configuration",
           [server_type |-> [type |-> "string",
                             enum |-> <<"html_server", "ais_server", "admin_server">>],
            config_area |-> [type |-> "string",
                             enum |-> <<"initial_setup", "managed_servers", "clustering", "ssl", "ports", "jvm_settings">>,
                             default |-> "initial_setup"]],
           <<"server_type">>),
      Tool("get_configuration_utilities_guide",
           [utility_area |-> [type |-> "string",
                              enum |-> <<"business_data", "task_views", "roles", "security", "program_versions", "overview">>]],
           <<"utility_area">>),
      Tool("search_jde_documentation",
           [topic    |-> [type |-> "string"],
            doc_type |-> [type |-> "string",
                          enum |-> <<"installation_guide", "admin_guide", "security_guide", "upgrade_guide", "release_notes", "all">>,
                          default |-> "all"]],
           <<"topic">>),
      Tool("get_log_analysis_guidance",
           [log_type   |-> [type |-> "string",
                            enum |-> <<"jde_log", "jas_log", "weblogic_log", "server_manager_log", "package_build_log", "all">>],
            issue_type |-> [type |-> "string"]],
           <<"log_type">>),
      Tool("configure_multi_environment",
           [deployment_model |-> [type |-> "string",
                                  enum |-> <<"single_server", "distributed", "cloud_hybrid">>],
            environments     |-> [type |-> "array"]],
           <<"deployment_model", "environments">>)>>

Range(seq) == {seq[i] : i \in 1..Len(seq)}

\* The operation names the stdio adapter lists.
StdioToolNames == {list_tools[i].name : i \in 1..Len(list_tools)}

\* The input schema list_tools declares for a listed operation.
SchemaOf(name) == (CHOOSE t \in Range(list_tools) : t.name = name).inputSchema

(***************************************************************************)
(* Argument bags.  A bag is a JSON value: [type |-> "dict", value |-> d]   *)
(* for an object, [type |-> "list", value |-> l] for an array (which has   *)
(* no .get, so the first arguments.get raises AttributeError).             *)
(***************************************************************************)

Dict(d) == [type |-> "dict", value |-> d]

List(l) == [type |-> "list", value |-> l]

IsDict(arguments) == arguments.type = "dict"

\* str(e) of the AttributeError raised by arguments.get on a list
NoGetMessage == "'list' object has no attribute 'get'"

\* str(e) of the AttributeError raised by symptom.lower() on a number
NoLowerMessage == "'int' object has no attribute 'lower'"

\* What a handler body produces: a value it returns or an exception it
\* raises, and the store trees it has read by then.
Returned(value, trees) == [raised |-> FALSE, value |-> value, queried |-> trees]

Raised(message, trees) == [raised |-> TRUE, message |-> message, queried |-> trees]

(***************************************************************************)
(* server.py: call_tool                                                    *)
(***************************************************************************)

RECURSIVE PrereqLoop(_, _, _)
\* the for loop of the component == "all" branch over the listed components
PrereqLoop(comps, platform, prerequisites) ==
    IF comps = << >> THEN prerequisites
    ELSE LET comp   == Head(comps)
             prereq == Get(StdioTree("INSTALLATION_PREREQUISITES"), comp, EmptyDict)
         IN  IF platform \in Keys(prereq)
             THEN PrereqLoop(Tail(comps), platform, SetItem(prerequisites, comp, prereq[platform]))
             ELSE IF comp = "database"
             THEN PrereqLoop(Tail(comps), platform, SetItem(prerequisites, comp, prereq))
             ELSE PrereqLoop(Tail(comps), platform, prerequisites)

\* The identity of a dict a handler assigns into: one it has just built
\* from a literal, or one that lives in a store tree at the given path.
NewDict == [heap |-> "handler"]

StoreDict(path) == [heap |-> "store", path |-> path]

\* target[key] = value
ItemAssignment(target, key, value) == [target |-> target, key |-> key, value |-> value]

\* the dict bound to result["prerequisites"] in the component == "all"
\* branch, had the branch bound the tree itself as execute_tool does
PrerequisitesTargetTree == StoreDict(<<"INSTALLATION_PREREQUISITES">>)

\* the dict bound to result["prerequisites"] in the component == "all"
\* branch: the {} literal
PrerequisitesTarget == NewDict

\* the dict bound to result in the other branch, had the branch annotated
\* the component's dict (prereq_data) instead of wrapping it
ResultTargetComponent(component, platform) ==
    IF component \in Keys(StdioTree("INSTALLATION_PREREQUISITES"))
    THEN StoreDict(<<"INSTALLATION_PREREQUISITES", component>>)
    ELSE NewDict

\* the dict bound to result in the other branch, had the branch annotated
\* the dict it selected (prereq) instead of wrapping it
ResultTargetSelected(component, platform) ==
    LET tree == StdioTree("INSTALLATION_PREREQUISITES")
    IN  IF component \notin Keys(tree) THEN NewDict
        ELSE IF platform \in Keys(tree[component])
        THEN StoreDict(<<"INSTALLATION_PREREQUISITES", component, platform>>)
        ELSE StoreDict(<<"INSTALLATION_PREREQUISITES", component>>)

\* the dict bound to result in the other branch: a dict literal
ResultTarget(component, platform) == NewDict

RECURSIVE PrereqLoopAssignments(_, _)
\* the item assignments the for loop makes
PrereqLoopAssignments(comps, platform) ==
    IF comps = << >> THEN << >>
    ELSE LET comp   == Head(comps)
             prereq == Get(StdioTree("INSTALLATION_PREREQUISITES"), comp, EmptyDict)
             rest   == PrereqLoopAssignments(Tail(comps), platform)
         IN  IF platform \in Keys(prereq)
             THEN <<ItemAssignment(PrerequisitesTarget, comp, prereq[platform])>> \o rest
             ELSE IF comp = "database"
             THEN <<ItemAssignment(PrerequisitesTarget, comp, prereq)>> \o rest
             ELSE rest

\* the item assignments of the research_installation_prerequisites branch,
\* in order: those of the loop, then result["notes"] = [...]
StdioPrerequisitesAssignments(a) ==
    LET component == Get(a, "component", "all")
        platform  == Get(a, "platform", "windows")
        notes     == <<"Verify against Oracle Certifications", "Check MOS for latest patches">>
    IN  IF component = "all"
        THEN PrereqLoopAssignments(<<"deployment_server", "enterprise_server", "html_server", "database">>,
                                   platform)
             \o <<ItemAssignment(NewDict, "notes", notes)>>
        ELSE <<ItemAssignment(ResultTarget(component, platform), "notes", notes)>>

StdioPrerequisites(a) ==
    LET component == Get(a, "component", "all")
        platform  == Get(a, "platform", "windows")
        notes     == <<"Verify against Oracle Certifications", "Check MOS for latest patches">>
    IN  IF component = "all"
        THEN [platform |-> platform,
              prerequisites |-> PrereqLoop(<<"deployment_server", "enterprise_server", "html_server", "database">>,
                                           platform, EmptyDict),
              notes |-> notes]
        ELSE LET prereq_data == Get(StdioTree("INSTALLATION_PREREQUISITES"), component, EmptyDict)
                 prereq      == Get(prereq_data, platform, prereq_data)
             IN  [component |-> component, platform |-> platform,
                  prerequisites |-> prereq, notes |-> notes]

StdioSequence(a) ==
    LET env_type == Get(a, "environment_type", "production")
        sequence == Get(StdioTree("INSTALLATION_SEQUENCE"), env_type,
                        StdioTree("INSTALLATION_SEQUENCE")["production"])
    IN  [environment_type |-> env_type,
         installation_sequence |-> sequence,
         notes |-> <<"Follow steps in order", "Do not skip backups", "Document all changes">>]

\* the get_environment_configuration branch, had it fallen back to the
\* production tree on a miss as the sequence and guide branches do
StdioEnvironmentProductionFallback(a) ==
    LET environment == Get(a, "environment", None)
        component   == Get(a, "component", "all")
        env_config  == Get(StdioTree("ENVIRONMENT_CONFIG"), environment,
                           StdioTree("ENVIRONMENT_CONFIG")["PD920_production"])
    IN  IF component = "all"
        THEN [environment |-> environment, configuration |-> env_config]
        ELSE IF component = "data_sources"
        THEN [environment |-> environment,
              data_sources |-> Get(env_config, "data_sources", EmptyDict)]
        ELSE [environment |-> environment, component |-> component,
              data |-> Get(env_config, component, env_config)]

\* the get_environment_configuration branch, had a component the
\* environment lacks selected nothing
StdioEnvironmentEmptyOnMiss(a) ==
    LET environment == Get(a, "environment", None)
        component   == Get(a, "component", "all")
        env_config  == Get(StdioTree("ENVIRONMENT_CONFIG"), environment, EmptyDict)
    IN  IF component = "all"
        THEN [environment |-> environment, configuration |-> env_config]
        ELSE IF component = "data_sources"
        THEN [environment |-> environment,
              data_sources |-> Get(env_config, "data_sources", EmptyDict)]
        ELSE [environment |-> environment, component |-> component,
              data |-> Get(env_config, component, EmptyDict)]

StdioEnvironment(a) ==
    LET environment == Get(a, "environment", None)
        component   == Get(a, "component", "all")
        env_config  == Get(StdioTree("ENVIRONMENT_CONFIG"), environment, EmptyDict)
    IN  IF component = "all"
        THEN [environment |-> environment, configuration |-> env_config]
        ELSE IF component = "data_sources"
        THEN [environment |-> environment,
              data_sources |-> Get(env_config, "data_sources", EmptyDict)]
        ELSE [environment |-> environment, component |-> component,
              data |-> Get(env_config, component, env_config)]

\* the research_server_manager_config branch, had an operation the area
\* lacks selected nothing instead of the area's initial_setup
StdioServerManagerNoFallback(a) ==
    LET config_area   == Get(a, "config_area", None)
        operation     == Get(a, "operation", "initial_setup")
        server_config == Get(StdioTree("SERVER_MANAGER_CONFIG"), config_area, EmptyDict)
    IN  [config_area |-> config_area, operation |-> operation,
         configuration |-> Get(server_config, operation, EmptyDict)]

StdioServerManager(a) ==
    LET config_area   == Get(a, "config_area", None)
        operation     == Get(a, "operation", "initial_setup")
        server_config == Get(StdioTree("SERVER_MANAGER_CONFIG"), config_area, EmptyDict)
        config_data   ==
            IF operation = "kernel_configuration" /\ config_area = "enterprise_server"
            THEN Get(server_config, "kernel_configuration", EmptyDict)
            ELSE Get(server_config, operation, Get(server_config, "initial_setup", EmptyDict))
    IN  [config_area |-> config_area, operation |-> operation, configuration |-> config_data]

StdioCentralized(a) ==
    LET scope == Get(a, "scope", "overview")
    IN  [feature |-> "Centralized Configuration (Release 24)",
         scope |-> scope,
         details |-> Get(StdioTree("CENTRALIZED_CONFIGURATION"), scope,
                         StdioTree("CENTRALIZED_CONFIGURATION")["overview"])]

\* any(w in symptom.lower() for w in i["symptom"].lower().split())
AnyWordIn(issue, symptom) ==
    LET words == Split(Lower(issue.symptom))
    IN  \E k \in 1..Len(words) : Contains(Lower(symptom), words[k])

NoMatchText == "No exact match - use general troubleshooting"

GeneralSteps == <<"Check Server Manager logs", "Verify database connectivity", "Review JDE.LOG">>

\* The comprehension of the diagnose branch reaches symptom.lower() when
\* the component has an issue whose symptom has a word, and a number has
\* no such method.
StdioDiagnoseRaises(a) ==
    /\ Get(a, "symptom", "") = JsonNumber
    /\ \E i \in Range(Get(Get(StdioTree("TROUBLESHOOTING_GUIDE"), Get(a, "component", None),
                               EmptyDict), "common_issues", << >>)) :
           Split(Lower(i.symptom)) # << >>

StdioDiagnose(a) ==
    LET symptom          == Get(a, "symptom", "")
        component        == Get(a, "component", None)
        environment      == Get(a, "environment", "Not specified")
        component_issues == Get(Get(StdioTree("TROUBLESHOOTING_GUIDE"), component, EmptyDict),
                                "common_issues", << >>)
        matching         == SelectSeq(component_issues, LAMBDA i : AnyWordIn(i, symptom))
    IN  [symptom |-> symptom,
         component |-> component,
         environment |-> environment,
         matching_issues |-> IF matching # << >> THEN matching ELSE NoMatchText,
         general_steps |-> GeneralSteps]

\* the lookup_esu_asu_requirements branch, had its tools_release default
\* moved on from the one the schema declares
StdioEsuAsuNewerDefault(a) ==
    LET feature_area  == Get(a, "feature_area", "general")
        tools_release == Get(a, "tools_release", "9.2.8")
        feature_info  == Get(StdioTree("ESU_ASU_REQUIREMENTS"), feature_area, EmptyDict)
    IN  [feature_area |-> feature_area,
         tools_release |-> tools_release,
         requirements |-> feature_info,
         note |-> "Check My Oracle Support for current patch numbers"]

StdioEsuAsu(a) ==
    LET feature_area  == Get(a, "feature_area", "general")
        tools_release == Get(a, "tools_release", "9.2.7")
        feature_info  == Get(StdioTree("ESU_ASU_REQUIREMENTS"), feature_area, EmptyDict)
    IN  [feature_area |-> feature_area,
         tools_release |-> tools_release,
         requirements |-> feature_info,
         note |-> "Check My Oracle Support for current patch numbers"]

StdioWeblogic(a) ==
    LET server_type == Get(a, "server_type", None)
        config_area == Get(a, "config_area", "initial_setup")
        html_config == Get(StdioTree("SERVER_MANAGER_CONFIG"), "html_server", EmptyDict)
    IN  [server_type |-> server_type,
         config_area |-> config_area,
         ports |-> Get(html_config, "ports", EmptyDict),
         jvm_settings |-> Get(html_config, "jvm_settings", EmptyDict),
         setup_steps |-> Get(Get(html_config, "initial_setup", EmptyDict), "steps", << >>)]

StdioUtilities(a) ==
    LET utility_area == Get(a, "utility_area", "overview")
        utility_info == Get(StdioTree("CONFIGURATION_UTILITIES"), utility_area,
                            StdioTree("CONFIGURATION_UTILITIES")["overview"])
    IN  [program |-> "P01RS01", utility_area |-> utility_area,
         details |-> utility_info, menu |-> "GH9612"]

StdioSearch(a) ==
    [topic |-> Get(a, "topic", ""),
     resources |->
        <<[title |-> "JDE Documentation Library", url |-> "https://docs.oracle.com/en/applications/jd-edwards/"],
          [title |-> "My Oracle Support", url |-> "https://support.oracle.com"]>>]

StdioLogAnalysis(a) ==
    LET log_type == Get(a, "log_type", "all")
        log_info == IF log_type = "all" THEN StdioTree("LOG_ANALYSIS")
                    ELSE SetItem(EmptyDict, log_type, Get(StdioTree("LOG_ANALYSIS"), log_type, EmptyDict))
    IN  [log_type |-> log_type, analysis |-> log_info]

StdioMultiEnvironment(a) ==
    LET deployment_model == Get(a, "deployment_model", None)
        environments     == Get(a, "environments", << >>)
        model_guidance   ==
            [single_server |-> [description |-> "All environments on single server", port_offsets |-> 10],
             distributed   |-> [description |-> "Separate servers per environment", recommended |-> TRUE],
             cloud_hybrid  |-> [description |-> "Mix of on-prem and cloud",
                                cloud_options |-> <<"OCI", "AWS", "Azure">>]]
    IN  [deployment_model |-> deployment_model,
         environments |-> environments,
         guidance |-> Get(model_guidance, deployment_model, EmptyDict)]

\* the final else, had it left the name out of the message
StdioUnknownToolUnnamed(name) == [error |-> "Unknown tool"]

\* the final else of call_tool
StdioUnknownTool(name) == [error |-> "Unknown tool: " \o name]

\* The branch of call_tool taken for each handled name: the result it builds
\* and the store trees it reads.
StdioBranches ==
    [research_installation_prerequisites |-> {"INSTALLATION_PREREQUISITES"},
     get_installation_sequence           |-> {"INSTALLATION_SEQUENCE"},
     get_environment_configuration       |-> {"ENVIRONMENT_CONFIG"},
     research_server_manager_config      |-> {"SERVER_MANAGER_CONFIG"},
     get_centralized_configuration_guide |-> {"CENTRALIZED_CONFIGURATION"},
     diagnose_configuration_issue        |-> {"TROUBLESHOOTING_GUIDE"},
     lookup_esu_asu_requirements         |-> {"ESU_ASU_REQUIREMENTS"},
     get_weblogic_configuration          |-> {"SERVER_MANAGER_CONFIG"},
     get_configuration_utilities_guide   |-> {"CONFIGURATION_UTILITIES"},
     search_jde_documentation            |-> {},
     get_log_analysis_guidance           |-> {"LOG_ANALYSIS"},
     configure_multi_environment         |-> {}]

StdioResult(name, a) ==
    CASE name = "research_installation_prerequisites" -> StdioPrerequisites(a)
      [] name = "get_installation_sequence"           -> StdioSequence(a)
      [] name = "get_environment_configuration"       -> StdioEnvironment(a)
      [] name = "research_server_manager_config"      -> StdioServerManager(a)
      [] name = "get_centralized_configuration_guide" -> StdioCentralized(a)
      [] name = "diagnose_configuration_issue"        -> StdioDiagnose(a)
      [] name = "lookup_esu_asu_requirements"         -> StdioEsuAsu(a)
      [] name = "get_weblogic_configuration"          -> StdioWeblogic(a)
      [] name = "get_configuration_utilities_guide"   -> StdioUtilities(a)
      [] name = "search_jde_documentation"            -> StdioSearch(a)
      [] name = "get_log_analysis_guidance"           -> StdioLogAnalysis(a)
      [] name = "configure_multi_environment"         -> StdioMultiEnvironment(a)

\* The try body of call_tool: every handled branch starts with
\* arguments.get, which raises on a bag that is not a dict before any tree
\* is read; the diagnose branch raises on a symptom without .lower(); the
\* final else never touches the bag.
StdioTryBody(name, arguments) ==
    IF name \in DOMAIN StdioBranches
    THEN IF ~IsDict(arguments)
         THEN Raised(NoGetMessage, {})
         ELSE IF name = "diagnose_configuration_issue" /\ StdioDiagnoseRaises(arguments.value)
         THEN Raised(NoLowerMessage, StdioBranches[name])
         ELSE Returned(StdioResult(name, arguments.value), StdioBranches[name])
    ELSE Returned(StdioUnknownTool(name), {})

\* The item assignments call_tool makes: only the
\* research_installation_prerequisites branch has any; every other branch
\* builds its result in one dict literal.
StdioAssignments(name, arguments) ==
    IF name = "research_installation_prerequisites" /\ IsDict(arguments)
    THEN StdioPrerequisitesAssignments(arguments.value)
    ELSE << >>

TextContent(text) == [type |-> "text", text |-> text]

\* call_tool: the result, or the caught exception's message, as one
\* TextContent carrying the JSON document.
call_tool(name, arguments) ==
    LET body == StdioTryBody(name, arguments)
    IN  [content |-> IF body.raised
                     THEN <<TextContent([error |-> body.message])>>
                     ELSE <<TextContent(body.value)>>,
         queried |-> body.queried,
         raised |-> body.raised,
         assignments |-> StdioAssignments(name, arguments)]

(***************************************************************************)
(* server.py: resources and prompts                                        *)
(***************************************************************************)

Resource(uri, name) == [uri |-> uri, name |-> name, mimeType |-> "application/json"]

list_resources ==
    <<Resource("jde://config/installation-checklist", "Installation Checklist"),
      Resource("jde://config/environment-templates/production", "Production Template (PD920)"),
      Resource("jde://config/environment-templates/test", "Test Template (PY920)"),
      Resource("jde://config/environment-templates/development", "Development Template (DV920)"),
      Resource("jde://reference/port-assignments", "Port Assignments"),
      Resource("jde://reference/tools-release-matrix", "Tools Release Matrix"),
      Resource("jde://reference/error-codes", "Error Codes Reference")>>

ResourceUris == {list_resources[i].uri : i \in DOMAIN list_resources}

\* the payload of the final return of read_resource, had it not quoted the
\* URI
ResourceNotFoundUnnamed(uri) == [error |-> "Resource not found"]

\* the payload of the final return of read_resource
ResourceNotFound(uri) == [error |-> "Resource not found: " \o uri]

\* read_resource: the JSON document returned and the store trees read
read_resource(uri) ==
    IF uri = "jde://config/installation-checklist"
    THEN Returned([checklist |-> StdioTree("INSTALLATION_SEQUENCE")["production"],
                   prerequisites |-> StdioTree("INSTALLATION_PREREQUISITES")],
                  {"INSTALLATION_SEQUENCE", "INSTALLATION_PREREQUISITES"})
    ELSE IF uri = "jde://config/environment-templates/production"
    THEN Returned(StdioTree("ENVIRONMENT_CONFIG")["PD920_production"], {"ENVIRONMENT_CONFIG"})
    ELSE IF uri = "jde://config/environment-templates/test"
    THEN Returned(StdioTree("ENVIRONMENT_CONFIG")["PY920_test"], {"ENVIRONMENT_CONFIG"})
    ELSE IF uri = "jde://config/environment-templates/development"
    THEN Returned(StdioTree("ENVIRONMENT_CONFIG")["DV920_development"], {"ENVIRONMENT_CONFIG"})
    ELSE IF uri = "jde://reference/port-assignments"
    THEN Returned([weblogic_admin |-> 7001, managed |-> 7003, ais |-> 7075,
                   http |-> 80, https |-> 443], {})
    ELSE IF uri = "jde://reference/tools-release-matrix"
    THEN Returned([current |-> "9.2.7",
                   databases |-> <<"Oracle 19c", "SQL Server 2019+">>,
                   weblogic |-> <<"12.2.1.4", "14.1.1">>], {})
    ELSE IF uri = "jde://reference/error-codes"
    THEN Returned([security |-> [code \in {"0001"} |-> "Invalid credentials"],
                   database |-> [DB001 |-> "Connection failed"]], {})
    ELSE Returned(ResourceNotFound(uri), {})

PromptArgument(name) == [name |-> name, required |-> TRUE]

Prompt(name, description, arguments) ==
    [name |-> name, description |-> description, arguments |-> arguments]

list_prompts ==
    <<Prompt("new-environment-setup", "New environment setup workflow",
             <<PromptArgument("environment_name"), PromptArgument("environment_type"),
               PromptArgument("database_platform")>>),
      Prompt("troubleshoot-deployment", "Deployment troubleshooting",
             <<PromptArgument("package_name"), PromptArgument("target_environment"),
               PromptArgument("error_description")>>),
      Prompt("upgrade-planning", "Tools Release upgrade planning",
             <<PromptArgument("current_tools_release"), PromptArgument("target_tools_release")>>),
      Prompt("security-configuration", "Security configuration guidance",
             <<PromptArgument("security_level"), PromptArgument("environment")>>)>>

PromptNames == {list_prompts[i].name : i \in DOMAIN list_prompts}

\* the argument names a prompt declares, in order
PromptArgumentsOf(name) ==
    LET p == CHOOSE q \in Range(list_prompts) : q.name = name
    IN  [i \in DOMAIN p.arguments |-> p.arguments[i].name]

\* get_prompt called without arguments (arguments=None)
NoArguments == [type |-> "none"]

\* how the template would render a value, had it dropped missing ones
FormatBlank(v) == IF v = None THEN "" ELSE v

\* how an f-string renders a value: str(None) is "None", a str is itself
Format(v) == IF v = None THEN "None" ELSE v

PromptMessage(text) == [role |-> "user", content |-> [type |-> "text", text |-> text]]

GetPromptResult(description, messages) == [description |-> description, messages |-> messages]

\* args = arguments or {}
ArgsOf(arguments) == IF IsDict(arguments) THEN arguments.value ELSE EmptyDict

\* get_prompt: the description and the messages
get_prompt(name, arguments) ==
    LET args == ArgsOf(arguments)
        arg(key) == Format(Get(args, key, None))
    IN  IF name = "new-environment-setup"
        THEN GetPromptResult(
               "Setup guide for " \o Format(Get(args, "environment_name", "NEW_ENV")),
               <<PromptMessage("Set up JDE E1 9.2 R24 environment: " \o arg("environment_name")
                               \o " (" \o arg("environment_type") \o ") with "
                               \o arg("database_platform")
                               \o ". Provide prerequisites, installation steps, and verification.")>>)
        ELSE IF name = "troubleshoot-deployment"
        THEN GetPromptResult(
               "Troubleshoot " \o arg("package_name"),
               <<PromptMessage("Troubleshoot deployment of " \o arg("package_name") \o " to "
                               \o arg("target_environment") \o ". Error: "
                               \o arg("error_description"))>>)
        ELSE IF name = "upgrade-planning"
        THEN GetPromptResult(
               "Upgrade from " \o arg("current_tools_release") \o " to "
                               \o arg("target_tools_release"),
               <<PromptMessage("Plan upgrade from Tools " \o arg("current_tools_release") \o " to "
                               \o arg("target_tools_release")
                               \o ". Include ESUs/ASUs, sequence, and rollback plan.")>>)
        ELSE IF name = "security-configuration"
        THEN GetPromptResult(
               "Security for " \o arg("environment"),
               <<PromptMessage("Configure " \o arg("security_level") \o " security for "
                               \o arg("environment")
                               \o ". Include authentication, authorization, and audit settings.")>>)
        ELSE GetPromptResult("Unknown", << >>)

(***************************************************************************)
(* http_server.py: TOOLS and execute_tool                                  *)
(***************************************************************************)

\* The names of the entries of TOOLS, in order (descriptions left out).
\* TOOLS, had one entry been spelled unlike the name execute_tool tests
TOOLS_misspelled ==
    <<"research_installation_prerequisites", "get_installation_sequence",
      "get_environment_configuration", "research_server_manager_config",
      "get_centralized_configuration_guide", "diagnose_configuration_issue",
      "lookup_esu_asu_requirements", "get_weblogic_config",
      "get_configuration_utilities_guide", "search_jde_documentation",
      "get_log_analysis_guidance", "configure_multi_environment">>

TOOLS ==
    <<"research_installation_prerequisites", "get_installation_sequence",
      "get_environment_configuration", "research_server_manager_config",
      "get_centralized_configuration_guide", "diagnose_configuration_issue",
      "lookup_esu_asu_requirements", "get_weblogic_configuration",
      "get_configuration_utilities_guide", "search_jde_documentation",
      "get_log_analysis_guidance", "configure_multi_environment">>

HttpToolNames == Range(TOOLS)

HttpPrerequisites(a) ==
    LET component == Get(a, "component", "all")
        platform  == Get(a, "platform", "windows")
    IN  IF component = "all"
        THEN [platform |-> platform, prerequisites |-> HttpTree("INSTALLATION_PREREQUISITES")]
        ELSE LET prereq == Get(HttpTree("INSTALLATION_PREREQUISITES"), component, EmptyDict)
             IN  [component |-> component, platform |-> platform,
                  prerequisites |-> Get(prereq, platform, prereq)]

HttpSequence(a) ==
    LET env_type == Get(a, "environment_type", "production")
    IN  [environment_type |-> env_type,
         sequence |-> Get(HttpTree("INSTALLATION_SEQUENCE"), env_type, << >>)]

HttpEnvironment(a) ==
    LET environment == Get(a, "environment", "PD920_production")
    IN  [environment |-> environment,
         configuration |-> Get(HttpTree("ENVIRONMENT_CONFIG"), environment, EmptyDict)]

HttpServerManager(a) ==
    LET config_area == Get(a, "config_area", "deployment_server")
    IN  [config_area |-> config_area,
         configuration |-> Get(HttpTree("SERVER_MANAGER_CONFIG"), config_area, EmptyDict)]

HttpCentralized(a) ==
    LET scope == Get(a, "scope", "overview")
    IN  [scope |-> scope, guide |-> Get(HttpTree("CENTRALIZED_CONFIGURATION"), scope, EmptyDict)]

HttpDiagnose(a) ==
    LET component == Get(a, "component", "")
        symptom   == Get(a, "symptom", "")
        issues    == Get(Get(HttpTree("TROUBLESHOOTING_GUIDE"), component, EmptyDict),
                         "common_issues", << >>)
    IN  [component |-> component, symptom |-> symptom, related_issues |-> issues]

\* the lookup_esu_asu_requirements branch, had it rejected a feature area
\* that is not in the tree
HttpEsuAsuRejecting(a) ==
    LET feature == Get(a, "feature_area", "general")
    IN  IF feature \in Keys(HttpTree("ESU_ASU_REQUIREMENTS"))
        THEN [feature_area |-> feature,
              requirements |-> HttpTree("ESU_ASU_REQUIREMENTS")[feature]]
        ELSE [error |-> "Unknown feature_area: " \o feature]

HttpEsuAsu(a) ==
    LET feature == Get(a, "feature_area", "general")
    IN  [feature_area |-> feature,
         requirements |-> Get(HttpTree("ESU_ASU_REQUIREMENTS"), feature, EmptyDict)]

HttpWeblogic == [weblogic |-> Get(HttpTree("SERVER_MANAGER_CONFIG"), "html_server", EmptyDict)]

HttpUtilities(a) ==
    LET area == Get(a, "utility_area", "overview")
    IN  [utility_area |-> area,
         guide |-> Get(HttpTree("CONFIGURATION_UTILITIES"), area, EmptyDict)]

HttpLogAnalysis(a) ==
    LET log_type == Get(a, "log_type", "all")
    IN  IF log_type = "all"
        THEN [log_analysis |-> HttpTree("LOG_ANALYSIS")]
        ELSE [log_type |-> log_type,
              analysis |-> Get(HttpTree("LOG_ANALYSIS"), log_type, EmptyDict)]

HttpSearch(a) ==
    [topic |-> Get(a, "topic", ""),
     resources |->
        <<[name |-> "Oracle JDE Documentation", url |-> "https://docs.oracle.com/en/applications/jd-edwards/"],
          [name |-> "My Oracle Support", url |-> "https://support.oracle.com"]>>]

HttpMultiEnvironment(a) ==
    LET model == Get(a, "deployment_model", "distributed")
        envs  == Get(a, "environments", << >>)
    IN  [deployment_model |-> model,
         environments |-> envs,
         guidance |-> Get([single_server |-> "All environments on one server - use port offsets",
                           distributed   |-> "Recommended - separate servers per environment",
                           cloud_hybrid  |-> "Mix of on-prem and cloud deployment"],
                          model, "")]

\* the final return of execute_tool
HttpUnknownTool(name) == [error |-> "Unknown tool: " \o name]

\* The store trees each branch of execute_tool reads.
HttpBranches ==
    [research_installation_prerequisites |-> {"INSTALLATION_PREREQUISITES"},
     get_installation_sequence           |-> {"INSTALLATION_SEQUENCE"},
     get_environment_configuration       |-> {"ENVIRONMENT_CONFIG"},
     research_server_manager_config      |-> {"SERVER_MANAGER_CONFIG"},
     get_centralized_configuration_guide |-> {"CENTRALIZED_CONFIGURATION"},
     diagnose_configuration_issue        |-> {"TROUBLESHOOTING_GUIDE"},
     lookup_esu_asu_requirements         |-> {"ESU_ASU_REQUIREMENTS"},
     get_weblogic_configuration          |-> {"SERVER_MANAGER_CONFIG"},
     get_configuration_utilities_guide   |-> {"CONFIGURATION_UTILITIES"},
     get_log_analysis_guidance           |-> {"LOG_ANALYSIS"},
     search_jde_documentation            |-> {},
     configure_multi_environment         |-> {}]

HttpResult(name, a) ==
    CASE name = "research_installation_prerequisites" -> HttpPrerequisites(a)
      [] name = "get_installation_sequence"           -> HttpSequence(a)
      [] name = "get_environment_configuration"       -> HttpEnvironment(a)
      [] name = "research_server_manager_config"      -> HttpServerManager(a)
      [] name = "get_centralized_configuration_guide" -> HttpCentralized(a)
      [] name = "diagnose_configuration_issue"        -> HttpDiagnose(a)
      [] name = "lookup_esu_asu_requirements"         -> HttpEsuAsu(a)
      [] name = "get_configuration_utilities_guide"   -> HttpUtilities(a)
      [] name = "get_log_analysis_guidance"           -> HttpLogAnalysis(a)
      [] name = "search_jde_documentation"            -> HttpSearch(a)
      [] name = "configure_multi_environment"         -> HttpMultiEnvironment(a)

\* execute_tool: the get_weblogic_configuration branch never touches the
\* bag; every other handled branch starts with arguments.get, which raises
\* on a bag that is not a dict; an unhandled name falls through to the
\* final return.
execute_tool(name, arguments) ==
    IF name \in DOMAIN HttpBranches
    THEN IF name = "get_weblogic_configuration"
         THEN Returned(HttpWeblogic, HttpBranches[name])
         ELSE IF IsDict(arguments)
         THEN Returned(HttpResult(name, arguments.value), HttpBranches[name])
         ELSE Raised(NoGetMessage, {})
    ELSE Returned(HttpUnknownTool(name), {})

(***************************************************************************)
(* http_server.py: JDEHandler                                              *)
(***************************************************************************)

AllTrees == DOMAIN ModuleOf

RESOURCES ==
    <<[uri |-> "jde://config/installation-checklist", name |-> "Installation Checklist"],
      [uri |-> "jde://config/environment-templates/production", name |-> "Production Template (PD920)"],
      [uri |-> "jde://config/environment-templates/test", name |-> "Test Template (PY920)"],
      [uri |-> "jde://config/environment-templates/development", name |-> "Development Template (DV920)"],
      [uri |-> "jde://reference/port-assignments", name |-> "Port Assignments"],
      [uri |-> "jde://reference/tools-release-matrix", name |-> "Tools Release Matrix"],
      [uri |-> "jde://reference/error-codes", name |-> "Error Codes Reference"]>>

PROMPTS ==
    <<[name |-> "new-environment-setup", description |-> "New environment setup workflow"],
      [name |-> "troubleshoot-deployment", description |-> "Deployment troubleshooting"],
      [name |-> "upgrade-planning", description |-> "Tools Release upgrade planning"],
      [name |-> "security-configuration", description |-> "Security configuration guidance"]>>

\* the status line and the JSON document written
_send_json(data, status) == [status |-> status, json |-> data]

\* _check_auth, had it stopped at the "Bearer " prefix
_check_auth_prefix_only(headers) ==
    IF API_TOKEN = "" THEN TRUE
    ELSE StartsWith(Get(headers, "Authorization", ""), "Bearer ")

\* _check_auth, had it lacked the shortcut for an unset token
_check_auth_no_shortcut(headers) ==
    LET auth_header == Get(headers, "Authorization", "")
    IN  IF StartsWith(auth_header, "Bearer ")
        THEN SliceFrom(auth_header, 7) = API_TOKEN
        ELSE FALSE

\* _check_auth, had it matched the scheme without regard to case
_check_auth_any_case(headers) ==
    IF API_TOKEN = "" THEN TRUE
    ELSE LET auth_header == Get(headers, "Authorization", "")
         IN  IF StartsWith(Lower(auth_header), "bearer ")
             THEN SliceFrom(auth_header, 7) = API_TOKEN
             ELSE FALSE

\* the bearer check
_check_auth(headers) ==
    IF API_TOKEN = "" THEN TRUE
    ELSE LET auth_header == Get(headers, "Authorization", "")
         IN  IF StartsWith(auth_header, "Bearer ")
             THEN SliceFrom(auth_header, 7) = API_TOKEN
             ELSE FALSE

\* the 401 answer
_send_unauthorized == _send_json([error |-> "Unauthorized. Bearer token required."], 401)

\* The body of GET /debug; python_path and working_directory, which come
\* from the host, are left out.
DebugBody ==
    [import_status |-> IMPORT_STATUS,
     data_counts |-> [t \in AllTrees |-> Cardinality(Keys(HttpTree(t)))],
     environment_config_keys |->
        IF HttpTree("ENVIRONMENT_CONFIG") = EmptyDict THEN << >>
        ELSE <<"PD920_production", "PY920_test", "DV920_development">>]

\* What an HTTP handler hands back: the response sent, the store trees
\* read, whether an exception was raised, and the calls made in order.
Handled(sent, trees, exc, calls) ==
    [sent |-> sent, queried |-> trees, raised |-> exc, performed |-> calls]

\* do_GET
do_GET(path, headers) ==
    IF path = "/health"
    THEN Handled(_send_json([status |-> "healthy", service |-> "jde-e1-config-mcp"], 200),
                 {}, FALSE, <<"_send_json">>)
    ELSE IF ~_check_auth(headers)
    THEN Handled(_send_unauthorized, {}, FALSE, <<"_check_auth", "_send_unauthorized">>)
    ELSE IF path = "/" \/ path = ""
    THEN Handled(_send_json([name |-> "JDE E1 9.2 R24 Configuration Research MCP",
                             version |-> "1.0.0",
                             status |-> "running",
                             tools_count |-> Len(TOOLS),
                             resources_count |-> Len(RESOURCES),
                             prompts_count |-> Len(PROMPTS)], 200),
                 {}, FALSE, <<"_check_auth", "_send_json">>)
    ELSE IF path = "/tools"
    THEN Handled(_send_json([tools |-> TOOLS], 200), {}, FALSE, <<"_check_auth", "_send_json">>)
    ELSE IF path = "/resources"
    THEN Handled(_send_json([resources |-> RESOURCES], 200), {}, FALSE,
                 <<"_check_auth", "_send_json">>)
    ELSE IF path = "/prompts"
    THEN Handled(_send_json([prompts |-> PROMPTS], 200), {}, FALSE,
                 <<"_check_auth", "_send_json">>)
    ELSE IF path = "/debug"
    THEN Handled(_send_json(DebugBody, 200), AllTrees, FALSE, <<"_check_auth", "_send_json">>)
    ELSE Handled(_send_json([error |-> "Not found"], 404), {}, FALSE,
                 <<"_check_auth", "_send_json">>)

\* A request body is bytes that are not UTF-8 ("undecodable"), text that
\* json.loads rejects ("malformed"), or the JSON document it decodes to: an
\* array, or an object data. Its Content-Length header gives its length.
UndecodableBody == [kind |-> "undecodable"]

MalformedBody == [kind |-> "malformed"]

ArrayBody == [kind |-> "array"]

ObjectBody(data) == [kind |-> "object", data |-> data]

\* str(e) of the JSONDecodeError json.loads raises on the malformed body
JsonDecodeMessage == "Expecting value: line 1 column 1 (char 0)"

\* The handler raised out of do_POST: socketserver logs the traceback and
\* closes the connection; no status line and no document were written.
NothingSent == [status |-> 0, json |-> EmptyDict, closed |-> TRUE]

\* The /tools/call branch of do_POST: the body is read and decoded, then
\* the try block runs json.loads, the two data.get and execute_tool; any
\* exception in the try block is answered 500 with its message, and the
\* UnicodeDecodeError of bytes.decode(), raised before the try block,
\* leaves do_POST.
ToolsCall(body) ==
    IF body.kind = "undecodable"
    THEN Handled(NothingSent, {}, TRUE, <<"rfile.read">>)
    ELSE IF body.kind = "malformed"
    THEN Handled(_send_json([error |-> JsonDecodeMessage], 500), {}, TRUE,
                 <<"rfile.read", "json.loads", "_send_json">>)
    ELSE IF body.kind = "array"
    THEN Handled(_send_json([error |-> NoGetMessage], 500), {}, TRUE,
                 <<"rfile.read", "json.loads", "_send_json">>)
    ELSE LET data == body.data
             exec == execute_tool(Get(data, "name", ""), Get(data, "arguments", Dict(EmptyDict)))
         IN  IF exec.raised
             THEN Handled(_send_json([error |-> exec.message], 500), exec.queried, TRUE,
                          <<"rfile.read", "json.loads", "execute_tool", "_send_json">>)
             ELSE Handled(_send_json([result |-> exec.value], 200), exec.queried, FALSE,
                          <<"rfile.read", "json.loads", "execute_tool", "_send_json">>)

\* an outcome, after the calls made before it
After(calls, out) == [out EXCEPT !.performed = calls \o @]

\* do_POST, had it handled the request before checking the token
do_POST_check_last(path, headers, body) ==
    IF path = "/tools/call"
    THEN IF ~_check_auth(headers)
         THEN Handled(_send_unauthorized, ToolsCall(body).queried, FALSE,
                      SubSeq(ToolsCall(body).performed, 1, Len(ToolsCall(body).performed) - 1)
                        \o <<"_check_auth", "_send_unauthorized">>)
         ELSE After(<<"_check_auth">>, ToolsCall(body))
    ELSE IF ~_check_auth(headers)
    THEN Handled(_send_unauthorized, {}, FALSE, <<"_check_auth", "_send_unauthorized">>)
    ELSE Handled(_send_json([error |-> "Not found"], 404), {}, FALSE,
                 <<"_check_auth", "_send_json">>)

\* do_POST
do_POST(path, headers, body) ==
    IF ~_check_auth(headers)
    THEN Handled(_send_unauthorized, {}, FALSE, <<"_check_auth", "_send_unauthorized">>)
    ELSE IF path = "/tools/call"
    THEN After(<<"_check_auth">>, ToolsCall(body))
    ELSE Handled(_send_json([error |-> "Not found"], 404), {}, FALSE,
                 <<"_check_auth", "_send_json">>)

\* do_OPTIONS: status 200 and the CORS headers, no body, no check
do_OPTIONS(path, headers) ==
    [sent |-> [status |-> 200,
               allow_origin |-> "*",
               allow_methods |-> "GET, POST, OPTIONS",
               allow_headers |-> "Content-Type, Authorization"],
     queried |-> {}, raised |-> FALSE, performed |-> <<"send_response">>]

(***************************************************************************)
(* Requests                                                                *)
(***************************************************************************)

\* Longest "environments" list a request carries.
MaxEnvironments == 2

RECURSIVE SeqsUpTo(_, _)
\* the sequences over S of length at most n
SeqsUpTo(S, n) ==
    IF n = 0 THEN {<< >>}
    ELSE LET shorter == SeqsUpTo(S, n - 1)
         IN  shorter \cup {Append(q, x) : q \in shorter, x \in S}

RECURSIVE BagsOver(_, _)
\* the dicts that bind any subset of the listed fields, each to one of the
\* values listed for it
BagsOver(fields, values) ==
    IF fields = << >> THEN {EmptyDict}
    ELSE LET rest == BagsOver(Tail(fields), values)
         IN  rest \cup {SetItem(b, Head(fields), v) : b \in rest, v \in values[Head(fields)]}

SymptomInputs ==
    {"cannot access web client", "zzz-no-such-symptom", "", "Slow WEB", "the cobweb timeout",
     "Server Manager won't start", JsonNumber}

\* For each operation: the fields a request may carry and the values tried
\* for each (schema-legal values that are store keys, schema-legal values
\* that are not, and values outside the schema).
ArgumentInputs ==
    [research_installation_prerequisites |->
        [fields |-> <<"component", "platform">>,
         values |-> [component |-> {"all", "deployment_server", "database", "bogus"},
                     platform  |-> {"windows", "linux", "aix", "bogus"}]],
     get_installation_sequence |->
        [fields |-> <<"environment_type">>,
         values |-> [environment_type |-> {"production", "test_py", "bogus"}]],
     get_environment_configuration |->
        [fields |-> <<"environment", "component">>,
         values |-> [environment |-> {"PD920_production", "PY920_test", "XX999_unknown"},
                     component   |-> {"all", "data_sources", "server_map", "path_codes", "bogus"}]],
     research_server_manager_config |->
        [fields |-> <<"config_area", "operation">>,
         values |-> [config_area |-> {"deployment_server", "enterprise_server", "batch_server", "bogus"},
                     operation   |-> {"initial_setup", "package_deployment", "kernel_configuration",
                                      "add_environment", "bogus"}]],
     get_centralized_configuration_guide |->
        [fields |-> <<"scope">>,
         values |-> [scope |-> {"overview", "setup", "bogus"}]],
     diagnose_configuration_issue |->
        [fields |-> <<"symptom", "component", "environment">>,
         values |-> [symptom     |-> SymptomInputs,
                     component   |-> {"html_server", "deployment_server", "client", "bogus"},
                     environment |-> {"PD920"}]],
     lookup_esu_asu_requirements |->
        [fields |-> <<"feature_area", "tools_release">>,
         values |-> [feature_area  |-> {"orchestrator", "general", "bogus"},
                     tools_release |-> {"9.2.8"}]],
     get_weblogic_configuration |->
        [fields |-> <<"server_type", "config_area">>,
         values |-> [server_type |-> {"html_server", "bogus"},
                     config_area |-> {"ports", "bogus"}]],
     get_configuration_utilities_guide |->
        [fields |-> <<"utility_area">>,
         values |-> [utility_area |-> {"overview", "roles", "bogus"}]],
     search_jde_documentation |->
        [fields |-> <<"topic", "doc_type">>,
         values |-> [topic    |-> {"security"},
                     doc_type |-> {"all", "bogus"}]],
     get_log_analysis_guidance |->
        [fields |-> <<"log_type", "issue_type">>,
         values |-> [log_type   |-> {"all", "jde_log", "bogus"},
                     issue_type |-> {"crash"}]],
     configure_multi_environment |->
        [fields |-> <<"deployment_model", "environments">>,
         values |-> [deployment_model |-> {"single_server", "distributed", "bogus"},
                     environments     |-> SeqsUpTo({"PD920", "PY920"}, MaxEnvironments)]]]

RegisteredNames == DOMAIN ArgumentInputs

\* Names no adapter handles: empty, foreign, wrong case, trailing blank.
UnknownNames ==
    {"", "no_such_tool", "Get_Installation_Sequence", "get_installation_sequence "}

NameInputs == RegisteredNames \cup UnknownNames

\* The bags tried with a name: dicts over the operation's fields, and a
\* JSON array in place of the object.
BagInputs(name) ==
    IF name \in RegisteredNames
    THEN {Dict(b) : b \in BagsOver(ArgumentInputs[name].fields, ArgumentInputs[name].values)}
         \cup {List(<< >>)}
    ELSE {Dict(EmptyDict), Dict([component |-> "all"]), List(<< >>)}

PathInputs ==
    {"/health", "/", "/tools", "/resources", "/prompts", "/debug", "/tools/call",
     "/resources/read?uri=jde://reference/error-codes", "/prompts/get", "/nope"}

TokenInputs == {"", "s3cret"}

HeaderInputs ==
    {EmptyDict} \cup
    {[Authorization |-> v] :
        v \in {"", "Bearer s3cret", "Bearer wrong", "bearer s3cret", "Bearer s3cret ",
               "Bearer  s3cret", "Bearer ", "Basic s3cret", "s3cret"}}

\* The JSON objects posted to /tools/call: name and arguments each present
\* or absent.
CallDataFor(n) == {[name |-> n]} \cup {[name |-> n, arguments |-> a] : a \in BagInputs(n)}

CallData ==
    UNION {CallDataFor(n) : n \in NameInputs} \cup {EmptyDict, [arguments |-> Dict(EmptyDict)]}

BodyInputs(path) ==
    IF path = "/tools/call"
    THEN {UndecodableBody, MalformedBody, ArrayBody} \cup {ObjectBody(d) : d \in CallData}
    ELSE {MalformedBody, ObjectBody(EmptyDict)}

\* URIs read: the registered ones, and ones that differ from a registered
\* one in case, by a trailing slash or a query, or altogether.
UriInputs ==
    ResourceUris \cup
    {"", "jde://nope", "JDE://REFERENCE/ERROR-CODES", "jde://reference/error-codes/",
     "jde://reference/error-codes?x=1", "jde://reference"}

\* the one value tried for each prompt argument
PromptValues ==
    [environment_name |-> {"PD920"}, environment_type |-> {"production"},
     database_platform |-> {"Oracle 19c"}, package_name |-> {"PKG01"},
     target_environment |-> {"PY920"}, error_description |-> {"build failed"},
     current_tools_release |-> {"9.2.6"}, target_tools_release |-> {"9.2.8"},
     security_level |-> {"high"}, environment |-> {"PD920"}]

PromptNameInputs == PromptNames \cup {"", "no-such-prompt", "Upgrade-Planning"}

\* The arguments tried with a prompt: none at all, and every subset of the
\* declared ones.
PromptBagInputs(name) ==
    IF name \in PromptNames
    THEN {NoArguments} \cup {Dict(b) : b \in BagsOver(PromptArgumentsOf(name), PromptValues)}
    ELSE {NoArguments, Dict(EmptyDict), Dict([environment |-> "PD920"])}

(***************************************************************************)
(* The adapters as a state machine: a request is received and answered in  *)
(* one step; the per-request objects are dropped before the next one.      *)
(***************************************************************************)

NoRequest == [transport |-> "none"]

NoResponse == [transport |-> "none"]

Idle == request = NoRequest

\* What a handler's outcome amounts to for the adapter: the response sent,
\* the trees read, whether the handler raised, and its item assignments.
ToolAnswer(out) ==
    [response |-> [transport |-> "stdio", content |-> out.content],
     queried |-> out.queried, raised |-> out.raised, assignments |-> out.assignments,
     performed |-> << >>]

ResourceAnswer(out) ==
    [response |-> [transport |-> "stdio", text |-> out.value],
     queried |-> out.queried, raised |-> out.raised, assignments |-> << >>,
     performed |-> << >>]

PromptAnswer(result) ==
    [response |-> [transport |-> "stdio", prompt |-> result],
     queried |-> {}, raised |-> FALSE, assignments |-> << >>, performed |-> << >>]

HttpAnswer(out) ==
    [response |-> [transport |-> "http", sent |-> out.sent],
     queried |-> out.queried, raised |-> out.raised, assignments |-> << >>,
     performed |-> out.performed]

ListAnswer(listed) ==
    [response |-> [transport |-> "stdio", listed |-> listed],
     queried |-> {}, raised |-> FALSE, assignments |-> << >>, performed |-> << >>]

\* What the adapter does with a request.
Handle(r) ==
    IF r.transport = "stdio"
    THEN IF r.rpc = "call_tool" THEN ToolAnswer(call_tool(r.name, r.arguments))
         ELSE IF r.rpc = "read_resource" THEN ResourceAnswer(read_resource(r.uri))
         ELSE IF r.rpc = "get_prompt" THEN PromptAnswer(get_prompt(r.name, r.arguments))
         ELSE IF r.rpc = "list_tools" THEN ListAnswer(list_tools)
         ELSE IF r.rpc = "list_resources" THEN ListAnswer(list_resources)
         ELSE ListAnswer(list_prompts)
    ELSE IF r.method = "GET" THEN HttpAnswer(do_GET(r.path, r.headers))
    ELSE IF r.method = "POST" THEN HttpAnswer(do_POST(r.path, r.headers, r.body))
    ELSE HttpAnswer(do_OPTIONS(r.path, r.headers))

CallToolRequest(name, arguments) ==
    [transport |-> "stdio", rpc |-> "call_tool", name |-> name, arguments |-> arguments]

ReadResourceRequest(uri) == [transport |-> "stdio", rpc |-> "read_resource", uri |-> uri]

GetPromptRequest(name, arguments) ==
    [transport |-> "stdio", rpc |-> "get_prompt", name |-> name, arguments |-> arguments]

ListRequest(rpc) == [transport |-> "stdio", rpc |-> rpc]

HttpRequestOf(method, path, headers) ==
    [transport |-> "http", method |-> method, path |-> path, headers |-> headers]

PostRequest(path, headers, body) ==
    [transport |-> "http", method |-> "POST", path |-> path, headers |-> headers, body |-> body]

\* The reference requests: every read_resource, the prerequisites calls
\* that select a component, and requests of each other kind.
ReferenceRequests ==
    {ReadResourceRequest(uri) : uri \in UriInputs}
    \cup {CallToolRequest("research_installation_prerequisites", Dict(b)) :
            b \in {[component |-> "deployment_server"],
                   [component |-> "deployment_server", platform |-> "linux"],
                   [component |-> "database", platform |-> "aix"],
                   [component |-> "all"],
                   EmptyDict}}
    \cup {CallToolRequest("get_environment_configuration", Dict([environment |-> "PD920_production"])),
          CallToolRequest("no_such_tool", Dict(EmptyDict)),
          GetPromptRequest("upgrade-planning", NoArguments),
          HttpRequestOf("GET", "/debug", [Authorization |-> "Bearer s3cret"]),
          HttpRequestOf("GET", "/tools", EmptyDict),
          HttpRequestOf("OPTIONS", "/tools/call", EmptyDict),
          PostRequest("/tools/call", [Authorization |-> "Bearer s3cret"],
                      ObjectBody([name |-> "research_installation_prerequisites",
                                  arguments |-> Dict([component |-> "deployment_server"])])),
          PostRequest("/tools/call", EmptyDict, MalformedBody)}

Init ==
    /\ API_TOKEN \in TokenInputs
    /\ IMPORT_STATUS \in [{"knowledge_base", "environment_config", "troubleshooting"} -> BOOLEAN]
    /\ store = LoadedStore
    /\ request = NoRequest
    /\ response = NoResponse
    /\ queried = {}
    /\ raised = FALSE
    /\ performed = << >>
    /\ fresh = [r \in ReferenceRequests |-> Handle(r).response]

\* The waiting adapter receives r and its handler runs to completion.
Receive(r) ==
    \E out \in {Handle(r)} :
        /\ request' = r
        /\ response' = out.response
        /\ queried' = out.queried
        /\ raised' = out.raised
        /\ performed' = out.performed
        /\ store' = StoreAfter(store, out.assignments)
        /\ UNCHANGED <<API_TOKEN, IMPORT_STATUS, fresh>>

StdioCallTool ==
    /\ Idle
    /\ \E name \in NameInputs : \E arguments \in BagInputs(name) :
        Receive(CallToolRequest(name, arguments))

StdioReadResource ==
    /\ Idle
    /\ \E uri \in UriInputs : Receive(ReadResourceRequest(uri))

StdioGetPrompt ==
    /\ Idle
    /\ \E name \in PromptNameInputs : \E arguments \in PromptBagInputs(name) :
        Receive(GetPromptRequest(name, arguments))

StdioListTools == Idle /\ Receive(ListRequest("list_tools"))

StdioListResources == Idle /\ Receive(ListRequest("list_resources"))

StdioListPrompts == Idle /\ Receive(ListRequest("list_prompts"))

HttpGet ==
    /\ Idle
    /\ \E path \in PathInputs : \E headers \in HeaderInputs :
        Receive(HttpRequestOf("GET", path, headers))

HttpPost ==
    /\ Idle
    /\ \E path \in PathInputs : \E headers \in HeaderInputs : \E body \in BodyInputs(path) :
        Receive(PostRequest(path, headers, body))

HttpOptions ==
    /\ Idle
    /\ \E path \in PathInputs : \E headers \in HeaderInputs :
        Receive(HttpRequestOf("OPTIONS", path, headers))

\* The exchange is over: the handler returns and the adapter waits for the
\* next request.
Finish ==
    /\ ~Idle
    /\ request' = NoRequest
    /\ response' = NoResponse
    /\ queried' = {}
    /\ raised' = FALSE
    /\ performed' = << >>
    /\ UNCHANGED <<API_TOKEN, IMPORT_STATUS, store, fresh>>

Next ==
    \/ StdioCallTool
    \/ StdioReadResource
    \/ StdioGetPrompt
    \/ StdioListTools
    \/ StdioListResources
    \/ StdioListPrompts
    \/ HttpGet
    \/ HttpPost
    \/ HttpOptions
    \/ Finish

Spec == Init /\ [][Next]_vars

(***************************************************************************)
(* Properties                                                              *)
(***************************************************************************)

\* The request is a tool call that reached the stdio dispatcher.
StdioDispatch == request.transport = "stdio" /\ request.rpc = "call_tool"

\* The request is a POST /tools/call that passed the gate and carried a
\* JSON object, so that execute_tool was called.
HttpDispatch ==
    /\ request.transport = "http"
    /\ request.method = "POST"
    /\ request.path = "/tools/call"
    /\ _check_auth(request.headers)
    /\ request.body.kind = "object"

\* The name and the bag handed to the dispatcher.
DispatchName ==
    IF StdioDispatch THEN request.name ELSE Get(request.body.data, "name", "")

DispatchArguments ==
    IF StdioDispatch THEN request.arguments
    ELSE Get(request.body.data, "arguments", Dict(EmptyDict))

\* The JSON document the stdio adapter returned, decoded.
StdioPayload == response.content[1].text

\* The JSON document the HTTP adapter wrote, decoded, and its status.
HttpBody == response.sent.json

HttpStatus == response.sent.status

\* All three data modules were imported by http_server.py.
AllImported == \A m \in DOMAIN IMPORT_STATUS : IMPORT_STATUS[m]

\* C1: an operation name that is not registered, with any argument bag,
\* is answered by an error payload whose message contains the name, and no
\* exception is raised: on stdio the payload is {"error": message}; on HTTP
\* execute_tool returns it and POST /tools/call answers 200 carrying it.
UnknownToolAnswered ==
    /\ (StdioDispatch /\ request.name \notin StdioToolNames) =>
          /\ ~raised
          /\ Len(response.content) = 1
          /\ Keys(StdioPayload) = {"error"}
          /\ Contains(StdioPayload.error, request.name)
    /\ (HttpDispatch /\ DispatchName \notin HttpToolNames) =>
          /\ ~raised
          /\ HttpStatus = 200
          /\ Keys(HttpBody) = {"result"}
          /\ Keys(HttpBody.result) = {"error"}
          /\ Contains(HttpBody.result.error, DispatchName)

\* C1 witness: an unknown name sent over stdio with a bag that is not even
\* a mapping was answered by the error naming it.
UnknownToolWitness ==
    /\ StdioDispatch
    /\ request.name = "no_such_tool"
    /\ ~IsDict(request.arguments)
    /\ StdioPayload = [error |-> "Unknown tool: no_such_tool"]

\* The request reached a dispatcher with a registered name and a bag that
\* is a mapping.
RegisteredDispatch ==
    /\ StdioDispatch \/ HttpDispatch
    /\ DispatchName \in StdioToolNames
    /\ IsDict(DispatchArguments)

DispatchBag == DispatchArguments.value

\* The error messages the caller was sent (none or one): the payload's
\* error on stdio; on HTTP the body's error or the error inside its result.
ErrorMessages ==
    IF StdioDispatch
    THEN IF "error" \in Keys(StdioPayload) THEN {StdioPayload.error} ELSE {}
    ELSE IF "error" \in Keys(HttpBody) THEN {HttpBody.error}
    ELSE IF "error" \in Keys(HttpBody.result) THEN {HttpBody.result.error}
    ELSE {}

\* The required fields of the operation's schema that the bag lacks, in the
\* order the schema lists them.
UnmetRequired(name, bag) ==
    SelectSeq(SchemaOf(name).required, LAMBDA f : f \notin Keys(bag))

\* The fields of the bag whose value is outside the enumeration the schema
\* declares for them.
OutsideEnum(name, bag) ==
    {f \in Keys(bag) \cap Keys(SchemaOf(name).properties) :
        /\ "enum" \in Keys(SchemaOf(name).properties[f])
        /\ bag[f] \notin Range(SchemaOf(name).properties[f].enum)}

\* C2: dispatching a registered operation with a required argument absent
\* returns an error that names the first unmet required field (so the call
\* succeeds only when every absent field is optional).
MissingArgumentReported ==
    RegisteredDispatch =>
        LET unmet == UnmetRequired(DispatchName, DispatchBag)
        IN  unmet # << >> => \E m \in ErrorMessages : Contains(m, unmet[1])

\* C3: dispatching a registered operation with a value outside an argument's
\* enumeration returns an error naming the field and the value, and no store
\* tree is read for the request.
InvalidArgumentReported ==
    (RegisteredDispatch /\ UnmetRequired(DispatchName, DispatchBag) = << >>) =>
        \A f \in OutsideEnum(DispatchName, DispatchBag) :
            /\ \E m \in ErrorMessages : Contains(m, f) /\ Contains(m, DispatchBag[f])
            /\ queried = {}

(***************************************************************************)
(* The gate                                                                *)
(***************************************************************************)

HttpRequest == request.transport = "http"

\* The request carries exactly the header "Bearer <token>".
ValidBearer ==
    /\ "Authorization" \in Keys(request.headers)
    /\ request.headers.Authorization = "Bearer " \o API_TOKEN

HealthWithoutHeader ==
    /\ request.method = "GET"
    /\ request.path = "/health"
    /\ "Authorization" \notin Keys(request.headers)

\* C4 as stated: with a token configured, GET /health without an
\* Authorization header is answered 200, and a request to any other route
\* without a valid bearer header is answered 401, whatever its method.
GateEveryMethod ==
    (HttpRequest /\ API_TOKEN # "") =>
        /\ HealthWithoutHeader => HttpStatus = 200
        /\ (request.path # "/health" /\ ~ValidBearer) => HttpStatus = 401

\* C4 amended: with a token configured, GET /health without an
\* Authorization header is answered 200; a GET or POST request to any other
\* route without a valid bearer header is answered 401; an OPTIONS request
\* is answered 200 without any check.
GateGetAndPost ==
    (HttpRequest /\ API_TOKEN # "") =>
        /\ HealthWithoutHeader => HttpStatus = 200
        /\ (request.method \in {"GET", "POST"} /\ request.path # "/health" /\ ~ValidBearer)
              => HttpStatus = 401
        /\ request.method = "OPTIONS" => HttpStatus = 200

\* C4 witness: with a token configured, a POST /tools/call carrying a wrong
\* bearer token was answered 401.
GateWitness ==
    /\ HttpRequest
    /\ API_TOKEN = "s3cret"
    /\ request.method = "POST"
    /\ request.path = "/tools/call"
    /\ request.headers = [Authorization |-> "Bearer wrong"]
    /\ request.body.kind = "object"
    /\ HttpStatus = 401

\* C5: with no token configured, no request is answered 401, whatever its
\* Authorization header.
OpenAccess == (HttpRequest /\ API_TOKEN = "") => HttpStatus # 401

\* C5 witness: with no token configured, a GET /tools carrying a bearer
\* header was answered 200 with the tool list.
OpenAccessWitness ==
    /\ HttpRequest
    /\ API_TOKEN = ""
    /\ request.method = "GET"
    /\ request.path = "/tools"
    /\ request.headers = [Authorization |-> "Bearer wrong"]
    /\ HttpStatus = 200
    /\ HttpBody = [tools |-> TOOLS]

(***************************************************************************)
(* Diagnosis                                                               *)
(***************************************************************************)

\* A diagnose_configuration_issue call that carries a component and a
\* symptom that is a string.
DiagnoseDispatch ==
    /\ RegisteredDispatch
    /\ DispatchName = "diagnose_configuration_issue"
    /\ {"component", "symptom"} \subseteq Keys(DispatchBag)
    /\ DispatchBag.symptom # JsonNumber

\* The issues the store declares for a component, in declared order.
DeclaredIssues(component) ==
    Get(Get(TROUBLESHOOTING_GUIDE, component, EmptyDict), "common_issues", << >>)

\* Some whitespace-delimited token of the lowercased stored symptom is a
\* substring of the lowercased input symptom.
TokenOverlap(stored, input) ==
    \E t \in Range(Split(Lower(stored))) : Contains(Lower(input), t)

ExpectedIssues(component, symptom) ==
    SelectSeq(DeclaredIssues(component), LAMBDA i : TokenOverlap(i.symptom, symptom))

DiagnoseExpected == ExpectedIssues(DispatchBag.component, DispatchBag.symptom)

\* C6: the issues diagnose_configuration_issue returns are exactly the
\* issues of the component with a stored-symptom token that is a substring
\* of the lowercased input symptom, in declared order (on stdio under
\* matching_issues, where the no-match text stands for none; on HTTP, with
\* the troubleshooting tree loaded, under the one issue list it returns).
MatchingIssuesExact ==
    /\ (StdioDispatch /\ DiagnoseDispatch) =>
          IF DiagnoseExpected = << >>
          THEN StdioPayload.matching_issues = NoMatchText
          ELSE StdioPayload.matching_issues = DiagnoseExpected
    /\ (HttpDispatch /\ DiagnoseDispatch /\ IMPORT_STATUS["troubleshooting"]) =>
          /\ HttpStatus = 200
          /\ HttpBody.result.related_issues = DiagnoseExpected

\* C7: when no stored issue of the component matches the symptom, the
\* response holds no issue, says that no exact match was found and carries
\* the constant generic steps.
NoMatchFallback ==
    /\ (StdioDispatch /\ DiagnoseDispatch /\ DiagnoseExpected = << >>) =>
          /\ StdioPayload.matching_issues = NoMatchText
          /\ StdioPayload.general_steps = GeneralSteps
    /\ (HttpDispatch /\ DiagnoseDispatch /\ IMPORT_STATUS["troubleshooting"]
          /\ DiagnoseExpected = << >>) =>
          /\ HttpStatus = 200
          /\ HttpBody.result.related_issues = << >>
          /\ "matching_issues" \in Keys(HttpBody.result)
          /\ HttpBody.result.matching_issues = NoMatchText
          /\ "general_steps" \in Keys(HttpBody.result)
          /\ HttpBody.result.general_steps = GeneralSteps

(***************************************************************************)
(* Environment configuration                                               *)
(***************************************************************************)

\* A get_environment_configuration call whose bag is {environment: E}.
EnvironmentOnlyDispatch ==
    /\ RegisteredDispatch
    /\ DispatchName = "get_environment_configuration"
    /\ Keys(DispatchBag) = {"environment"}

\* C8: get_environment_configuration with {environment: E} returns E and,
\* as the configuration, the whole tree stored under E when E is a key of
\* the ENVIRONMENT_CONFIG tree the adapter loaded, and an empty mapping,
\* without an error, when it is not.
EnvironmentConfigurationReturned ==
    /\ (StdioDispatch /\ EnvironmentOnlyDispatch) =>
          LET E == DispatchBag.environment
          IN  /\ ~raised
              /\ StdioPayload =
                    [environment |-> E,
                     configuration |-> IF E \in Keys(ENVIRONMENT_CONFIG)
                                       THEN ENVIRONMENT_CONFIG[E] ELSE EmptyDict]
    /\ (HttpDispatch /\ EnvironmentOnlyDispatch) =>
          LET E == DispatchBag.environment
          IN  /\ ~raised
              /\ HttpStatus = 200
              /\ HttpBody.result =
                    [environment |-> E,
                     configuration |->
                        IF IMPORT_STATUS["environment_config"] /\ E \in Keys(ENVIRONMENT_CONFIG)
                        THEN ENVIRONMENT_CONFIG[E] ELSE EmptyDict]

\* C8 witness: an unregistered environment asked over stdio was answered
\* by an empty configuration.
EnvironmentConfigurationWitness ==
    /\ StdioDispatch
    /\ request.name = "get_environment_configuration"
    /\ request.arguments = Dict([environment |-> "XX999_unknown"])
    /\ ~raised
    /\ StdioPayload = [environment |-> "XX999_unknown", configuration |-> EmptyDict]

(***************************************************************************)
(* The two transports                                                      *)
(***************************************************************************)

\* Two JSON values of an operation's results agree.  The guidance of
\* configure_multi_environment is an object on stdio and a string on HTTP:
\* the two never agree, and TLA+ equality is not defined between them.
SameValue(name, key, x, y) ==
    IF name = "configure_multi_environment" /\ key = "guidance" THEN FALSE ELSE x = y

\* Two results have the same keys and the same values.
SameContent(name, a, b) ==
    /\ Keys(a) = Keys(b)
    /\ \A k \in Keys(a) : SameValue(name, k, a[k], b[k])

\* The bag meets the operation's schema: no required field is absent and
\* no value is outside its enumeration.
SchemaLegal(name, bag) == UnmetRequired(name, bag) = << >> /\ OutsideEnum(name, bag) = {}

\* C9: for a registered operation and a bag, the result of the stdio
\* adapter and the result POST /tools/call carries have the same keys and
\* values (stated for the bags that meet the schema, with every tree
\* loaded).
TransportsAgree ==
    (RegisteredDispatch /\ AllImported /\ SchemaLegal(DispatchName, DispatchBag)) =>
        LET name == DispatchName
            http == execute_tool(name, DispatchArguments)
            stdio == call_tool(name, DispatchArguments).content[1].text
        IN  IF StdioDispatch
            THEN ~http.raised /\ SameContent(name, StdioPayload, http.value)
            ELSE HttpStatus = 200 /\ SameContent(name, stdio, HttpBody.result)

\* The headers of a request that passes the gate.
AcceptedHeaders ==
    IF API_TOKEN = "" THEN EmptyDict ELSE [Authorization |-> "Bearer " \o API_TOKEN]

\* C10: an unknown operation name yields the same decoded payload on both
\* transports: the JSON document of the stdio TextContent and the JSON body
\* of POST /tools/call.
UnknownEnvelopeSame ==
    ((StdioDispatch \/ HttpDispatch) /\ DispatchName \notin StdioToolNames) =>
        LET name == DispatchName
            data == [name |-> name, arguments |-> DispatchArguments]
        IN  IF StdioDispatch
            THEN StdioPayload = do_POST("/tools/call", AcceptedHeaders, ObjectBody(data)).sent.json
            ELSE HttpBody = call_tool(name, DispatchArguments).content[1].text

\* The request is a read_resource / a get_prompt of the stdio adapter.
ResourceRead == request.transport = "stdio" /\ request.rpc = "read_resource"

PromptRender == request.transport = "stdio" /\ request.rpc = "get_prompt"

\* C11: after any sequence of requests (tool calls, resource reads, prompt
\* renders, HTTP requests, authorized or not) every tree of the store equals
\* its value at load time: no handler writes to the store, not even through
\* the result object it builds and annotates.
StoreNeverWritten == store = LoadedStore

\* C11 witness: a prerequisites call that selected a component of the store
\* annotated its result with notes (an item assignment on an object that
\* holds a store dict), and the trees are as loaded.
StoreNeverWrittenWitness ==
    /\ StdioDispatch
    /\ request.name = "research_installation_prerequisites"
    /\ IsDict(request.arguments)
    /\ Get(request.arguments.value, "component", "all") = "deployment_server"
    /\ StdioPayload.prerequisites = store.INSTALLATION_PREREQUISITES.deployment_server.windows
    /\ "notes" \in Keys(StdioPayload)
    /\ "notes" \notin Keys(store.INSTALLATION_PREREQUISITES.deployment_server.windows)
    /\ store = LoadedStore

\* C12: whatever requests were handled before it, and in whatever order, a
\* request gets the response the same request gets from the just-started
\* process (the token and the imports being those of the process): no
\* request observes an effect of another.
AnsweredAsWhenFresh == request \in DOMAIN fresh => response = fresh[request]

\* C12 witness: a reference prerequisites call, whose result wraps a dict
\* of the store and is annotated, got the answer of the fresh process.
AnsweredAsWhenFreshWitness ==
    /\ StdioDispatch
    /\ request = CallToolRequest("research_installation_prerequisites",
                                 Dict([component |-> "deployment_server"]))
    /\ "notes" \in Keys(StdioPayload)
    /\ response = fresh[request]

\* The keys found one level below the top of a tree.
SecondLevelKeys(tree) == UNION {Keys(tree[k]) : k \in Keys(tree)}

\* For each operation, its arguments that are keys into the store and, for
\* each, the keys the store has at that level ("all" where the code reads
\* it as every key).
StoreKeys ==
    [research_installation_prerequisites |->
        [component |-> Keys(store.INSTALLATION_PREREQUISITES) \cup {"all"},
         platform  |-> SecondLevelKeys(store.INSTALLATION_PREREQUISITES)],
     get_installation_sequence |->
        [environment_type |-> Keys(store.INSTALLATION_SEQUENCE)],
     get_environment_configuration |->
        [environment |-> Keys(store.ENVIRONMENT_CONFIG),
         component   |-> SecondLevelKeys(store.ENVIRONMENT_CONFIG) \cup {"all"}],
     research_server_manager_config |->
        [config_area |-> Keys(store.SERVER_MANAGER_CONFIG),
         operation   |-> SecondLevelKeys(store.SERVER_MANAGER_CONFIG)],
     get_centralized_configuration_guide |->
        [scope |-> Keys(store.CENTRALIZED_CONFIGURATION)],
     diagnose_configuration_issue |->
        [component |-> Keys(store.TROUBLESHOOTING_GUIDE)],
     lookup_esu_asu_requirements |->
        [feature_area |-> Keys(store.ESU_ASU_REQUIREMENTS)],
     get_weblogic_configuration |->
        [server_type |-> Keys(store.SERVER_MANAGER_CONFIG),
         config_area |-> Keys(store.SERVER_MANAGER_CONFIG.html_server)],
     get_configuration_utilities_guide |->
        [utility_area |-> Keys(store.CONFIGURATION_UTILITIES)],
     search_jde_documentation |-> EmptyDict,
     get_log_analysis_guidance |->
        [log_type |-> Keys(store.LOG_ANALYSIS) \cup {"all"}],
     configure_multi_environment |-> EmptyDict]

\* The bag carries key-valued arguments and none of them exists in the
\* store.
KeyMiss(name, bag) ==
    LET present == Keys(bag) \cap Keys(StoreKeys[name])
    IN  /\ present # {}
        /\ \A f \in present : bag[f] \notin StoreKeys[name][f]

\* A dict-valued view is empty or parent-scope: the empty mapping, the
\* whole tree, or the whole of one of the tree's top-level entries.
EmptyOrParent(view, tree) ==
    \/ view = EmptyDict
    \/ view = tree
    \/ \E k \in Keys(tree) : view = tree[k]

\* A mapping each of whose entries is empty or the whole entry of the tree
\* under the same key.
EntriesEmptyOrParent(view, tree) ==
    \A k \in Keys(view) : view[k] = EmptyDict \/ (k \in Keys(tree) /\ view[k] = tree[k])

\* The view the stdio result carries is empty or parent-scope; with
\* defaults allowed, also the default section the branch falls back to.
StdioViewDegraded(name, bag, r, defaults) ==
    CASE name = "research_installation_prerequisites" ->
            \/ EmptyOrParent(r.prerequisites, store.INSTALLATION_PREREQUISITES)
            \/ EntriesEmptyOrParent(r.prerequisites, store.INSTALLATION_PREREQUISITES)
      [] name = "get_installation_sequence" ->
            \/ r.installation_sequence = << >>
            \/ defaults /\ r.installation_sequence = store.INSTALLATION_SEQUENCE.production
      [] name = "get_environment_configuration" ->
            LET view == IF "configuration" \in Keys(r) THEN r.configuration
                        ELSE IF "data_sources" \in Keys(r) THEN r.data_sources
                        ELSE r.data
            IN  EmptyOrParent(view, store.ENVIRONMENT_CONFIG)
      [] name = "research_server_manager_config" ->
            EmptyOrParent(r.configuration, store.SERVER_MANAGER_CONFIG)
      [] name = "get_centralized_configuration_guide" ->
            \/ r.details = EmptyDict
            \/ r.details = store.CENTRALIZED_CONFIGURATION
            \/ defaults /\ r.details = store.CENTRALIZED_CONFIGURATION.overview
      [] name = "diagnose_configuration_issue" ->
            r.matching_issues = NoMatchText
      [] name = "lookup_esu_asu_requirements" ->
            r.requirements = EmptyDict \/ r.requirements = store.ESU_ASU_REQUIREMENTS
      [] name = "get_weblogic_configuration" ->
            /\ r.ports = store.SERVER_MANAGER_CONFIG.html_server.ports
            /\ r.jvm_settings = store.SERVER_MANAGER_CONFIG.html_server.jvm_settings
            /\ r.setup_steps = store.SERVER_MANAGER_CONFIG.html_server.initial_setup.steps
      [] name = "get_configuration_utilities_guide" ->
            \/ r.details = EmptyDict
            \/ r.details = store.CONFIGURATION_UTILITIES
            \/ defaults /\ r.details = store.CONFIGURATION_UTILITIES.overview
      [] name = "get_log_analysis_guidance" ->
            \/ r.analysis = store.LOG_ANALYSIS
            \/ EntriesEmptyOrParent(r.analysis, store.LOG_ANALYSIS)

\* The view the HTTP result carries is empty or parent-scope.
HttpViewDegraded(name, bag, r) ==
    CASE name = "research_installation_prerequisites" ->
            EmptyOrParent(r.prerequisites, store.INSTALLATION_PREREQUISITES)
      [] name = "get_installation_sequence" -> r.sequence = << >>
      [] name = "get_environment_configuration" ->
            EmptyOrParent(r.configuration, store.ENVIRONMENT_CONFIG)
      [] name = "research_server_manager_config" ->
            EmptyOrParent(r.configuration, store.SERVER_MANAGER_CONFIG)
      [] name = "get_centralized_configuration_guide" ->
            r.guide = EmptyDict \/ r.guide = store.CENTRALIZED_CONFIGURATION
      [] name = "diagnose_configuration_issue" -> r.related_issues = << >>
      [] name = "lookup_esu_asu_requirements" ->
            r.requirements = EmptyDict \/ r.requirements = store.ESU_ASU_REQUIREMENTS
      [] name = "get_weblogic_configuration" ->
            EmptyOrParent(r.weblogic, store.SERVER_MANAGER_CONFIG)
      [] name = "get_configuration_utilities_guide" ->
            r.guide = EmptyDict \/ r.guide = store.CONFIGURATION_UTILITIES
      [] name = "get_log_analysis_guidance" ->
            IF "log_analysis" \in Keys(r)
            THEN r.log_analysis = EmptyDict \/ r.log_analysis = store.LOG_ANALYSIS
            ELSE r.analysis = EmptyDict \/ r.analysis = store.LOG_ANALYSIS

\* A dispatch whose key-valued arguments miss the store returns a success
\* result, neither an error payload nor an exception, whose view is empty
\* or parent-scope (or, with defaults allowed, the branch's default
\* section).
MissDegrades(defaults) ==
    (RegisteredDispatch /\ KeyMiss(DispatchName, DispatchBag)) =>
        /\ ~raised
        /\ ErrorMessages = {}
        /\ IF StdioDispatch
           THEN StdioViewDegraded(DispatchName, DispatchBag, StdioPayload, defaults)
           ELSE /\ HttpStatus = 200
                /\ HttpViewDegraded(DispatchName, DispatchBag, HttpBody.result)

\* C13 as stated: for a registered operation and a bag of string-valued
\* arguments whose key-valued arguments do not exist in the store, dispatch
\* returns a success result that is an empty or parent-scope view, never an
\* error payload, never an exception.
KeyMissEmptyOrParent == MissDegrades(FALSE)

\* C13 amended: ... a success result, never an error payload, never an
\* exception, that is an empty view, a parent-scope view or, on the stdio
\* adapter, the default section of the tree (the production sequence, the
\* overview of the centralized configuration or of the utilities).
KeyMissDegrades == MissDegrades(TRUE)

\* C13 witness: POST /tools/call looked up a feature area the store does
\* not have and answered 200 with empty requirements.
KeyMissDegradesWitness ==
    /\ HttpDispatch
    /\ DispatchName = "lookup_esu_asu_requirements"
    /\ IsDict(DispatchArguments)
    /\ KeyMiss(DispatchName, DispatchBag)
    /\ IMPORT_STATUS.environment_config
    /\ HttpStatus = 200
    /\ HttpBody.result.requirements = EmptyDict

\* An authorized POST /tools/call.
AuthorizedCall ==
    /\ request.transport = "http"
    /\ request.method = "POST"
    /\ request.path = "/tools/call"
    /\ _check_auth(request.headers)

\* C14: a POST /tools/call whose body cannot be parsed as a JSON object
\* (text that is not JSON, or JSON that is not an object) is answered with
\* status 400.
MalformedBodyRejected ==
    (AuthorizedCall /\ request.body.kind \in {"malformed", "array"}) => HttpStatus = 400

\* execute_tool was called and returned: the outcome is domain-level
\* (a result, an unknown operation name, an unmatched key).
DomainOutcome ==
    /\ AuthorizedCall
    /\ request.body.kind = "object"
    /\ ~execute_tool(DispatchName, DispatchArguments).raised

\* execute_tool was called and raised: a fault inside a resolver.
ResolverFault ==
    /\ AuthorizedCall
    /\ request.body.kind = "object"
    /\ execute_tool(DispatchName, DispatchArguments).raised

\* C15: every domain-level outcome of an authorized POST /tools/call is
\* answered with status 200, and status 500 is returned only when a fault
\* occurred in a resolver.
DomainOutcomesAnswered200 ==
    /\ DomainOutcome => HttpStatus = 200
    /\ (AuthorizedCall /\ HttpStatus = 500) => ResolverFault

\* C16: read_resource is idempotent: whatever requests were handled in
\* between, a read of a URI, registered or not, returns the payload the
\* first read of that URI returned, so any two reads of one URI agree.
ReadResourceIdempotent ==
    ResourceRead => response.text = fresh[ReadResourceRequest(request.uri)].text

\* C16 witness: the installation checklist, which carries two trees of the
\* store, was read and is the checklist first returned.
ReadResourceIdempotentWitness ==
    /\ ResourceRead
    /\ request.uri = "jde://config/installation-checklist"
    /\ response.text.prerequisites = LoadedStore.INSTALLATION_PREREQUISITES
    /\ response.text = fresh[ReadResourceRequest(request.uri)].text

\* C17: read_resource with a URI that is not exactly a registered URI
\* returns the payload {"error": "Resource not found: <uri>"}, which
\* contains the URI, and raises nothing; with a registered URI it returns
\* another payload.
UnregisteredUriNotFound ==
    ResourceRead =>
        /\ ~raised
        /\ request.uri \notin ResourceUris =>
              /\ Keys(response.text) = {"error"}
              /\ StartsWith(response.text.error, "Resource not found")
              /\ Contains(response.text.error, request.uri)
        /\ request.uri \in ResourceUris =>
              /\ "error" \notin Keys(response.text)
              /\ response.text # ResourceNotFound(request.uri)

\* C17 witness: a registered URI written in upper case was not found, and
\* the payload quotes it as given.
UnregisteredUriNotFoundWitness ==
    /\ ResourceRead
    /\ request.uri = "JDE://REFERENCE/ERROR-CODES"
    /\ Lower(request.uri) \in ResourceUris
    /\ response.text = [error |-> "Resource not found: JDE://REFERENCE/ERROR-CODES"]

\* The token a missing prompt argument is rendered as.
Placeholder == "None"

\* how many times w occurs in s
CountOf(s, w) ==
    Cardinality({i \in 1..(Len(s) - Len(w) + 1) : SubSeq(s, i, i + Len(w) - 1) = w})

\* The arguments a prompt declares that the request does not carry.
MissingPromptArguments ==
    {k \in Range(PromptArgumentsOf(request.name)) : k \notin Keys(ArgsOf(request.arguments))}

\* C18: rendering a registered prompt with any subset of its arguments
\* missing, or with no arguments at all, does not fail: it returns a
\* description and exactly one message, in whose text every missing
\* argument appears as the placeholder token and every given one as its
\* value.
MissingPromptArgumentsReplaced ==
    (PromptRender /\ request.name \in PromptNames) =>
        LET text == response.prompt.messages[1].content.text
        IN  /\ ~raised
            /\ Len(response.prompt.description) > 0
            /\ Len(response.prompt.messages) = 1
            /\ CountOf(text, Placeholder) = Cardinality(MissingPromptArguments)
            /\ \A k \in Keys(ArgsOf(request.arguments)) :
                  Contains(text, request.arguments.value[k])

\* C18 witness: new-environment-setup rendered without arguments shows the
\* placeholder three times.
MissingPromptArgumentsWitness ==
    /\ PromptRender
    /\ request.name = "new-environment-setup"
    /\ request.arguments = NoArguments
    /\ Contains(response.prompt.messages[1].content.text, "environment: None (None) with None.")

\* The arguments for which the operation's schema declares a default and
\* which the bag does not carry.
DefaultedAbsent(name, bag) ==
    {f \in Keys(SchemaOf(name).properties) :
        "default" \in Keys(SchemaOf(name).properties[f]) /\ f \notin Keys(bag)}

\* The bag with f set to the default the schema declares for it.
WithDefault(name, bag, f) == SetItem(bag, f, SchemaOf(name).properties[f].default)

\* C19: for a registered operation and an argument whose schema declares a
\* default, dispatching with the argument absent returns the result that
\* dispatching with the argument set to that default returns.
AbsentMeansDefault ==
    RegisteredDispatch =>
        \A f \in DefaultedAbsent(DispatchName, DispatchBag) :
            LET explicit == Dict(WithDefault(DispatchName, DispatchBag, f))
            IN  IF StdioDispatch
                THEN response.content = call_tool(DispatchName, explicit).content
                ELSE /\ HttpStatus = 200
                     /\ HttpBody.result = execute_tool(DispatchName, explicit).value

\* C19 witness: the ESU/ASU lookup was called without tools_release and
\* answered with the release the schema declares as default.
AbsentMeansDefaultWitness ==
    /\ StdioDispatch
    /\ request.name = "lookup_esu_asu_requirements"
    /\ IsDict(request.arguments)
    /\ DefaultedAbsent(request.name, request.arguments.value) = {"tools_release"}
    /\ StdioPayload.tools_release = SchemaOf(request.name).properties.tools_release.default

\* The shape of the envelope sent: on stdio the keys of the payload; on
\* HTTP the status and the keys of the body.
EnvelopeShape ==
    IF StdioDispatch THEN [keys |-> Keys(StdioPayload)]
    ELSE [status |-> HttpStatus, keys |-> Keys(HttpBody)]

\* The shape of the envelope the transport sends for an operation name it
\* does not recognize.
UnknownEnvelopeShape ==
    IF StdioDispatch
    THEN [keys |-> Keys(call_tool("no_such_tool", Dict(EmptyDict)).content[1].text)]
    ELSE LET sent == ToolsCall(ObjectBody([name |-> "no_such_tool"])).sent
         IN  [status |-> sent.status, keys |-> Keys(sent.json)]

\* C20: on each transport the result of a registered operation, whatever
\* its arguments, has an envelope of another shape than the envelope of an
\* unrecognized operation name, so a caller can tell an empty or default
\* result from an unknown operation.
ResultEnvelopeDistinct ==
    (RegisteredDispatch /\ ~raised) => EnvelopeShape # UnknownEnvelopeShape

\* An HTTP request that passed the bearer check.
AuthorizedHttp == request.transport = "http" /\ _check_auth(request.headers)

ResourceReadRoute == "/resources/read?uri="

\* C21: the HTTP adapter reaches the operations of the stdio adapter: an
\* authorized GET /resources/read?uri=U is answered with the body
\* read_resource gives for U (the resource or the not-found payload), an
\* authorized POST /prompts/get with {description, messages}; neither is
\* answered 404.
ResourcesAndPromptsOverHttp ==
    /\ (AuthorizedHttp /\ request.method = "GET"
            /\ StartsWith(request.path, ResourceReadRoute)) =>
          /\ HttpStatus # 404
          /\ HttpBody = read_resource(SliceFrom(request.path, Len(ResourceReadRoute))).value
    /\ (AuthorizedHttp /\ request.method = "POST" /\ request.path = "/prompts/get") =>
          /\ HttpStatus # 404
          /\ {"description", "messages"} \subseteq Keys(HttpBody)

\* C22: get_prompt with a name that is not a registered prompt returns a
\* structured payload that carries an error field, and raises nothing.
UnknownPromptReported ==
    (PromptRender /\ request.name \notin PromptNames) =>
        /\ ~raised
        /\ "error" \in Keys(response.prompt)

\* An argument schema meets the ArgumentSpec invariant: a required argument
\* declares no default, and a default declared next to an enumeration is
\* one of its values.
ArgumentSpecInvariant(schema) ==
    \A f \in Keys(schema.properties) :
        LET p == schema.properties[f]
        IN  /\ f \in Range(schema.required) => "default" \notin Keys(p)
            /\ ("default" \in Keys(p) /\ "enum" \in Keys(p)) => p.default \in Range(p.enum)

\* C23: every argument schema of every registered operation, as list_tools
\* returns the registry, meets the ArgumentSpec invariant.
SchemasWellFormed ==
    request = ListRequest("list_tools") =>
        \A t \in Range(response.listed) : ArgumentSpecInvariant(t.inputSchema)

\* C23 witness: list_tools was answered, and the registry it returned has
\* required arguments, and arguments that declare an enumeration and a
\* default.
SchemasWellFormedWitness ==
    /\ request = ListRequest("list_tools")
    /\ Len(response.listed) = 12
    /\ \E t \in Range(response.listed) :
          /\ t.inputSchema.required # << >>
          /\ \E f \in Keys(t.inputSchema.properties) :
                {"default", "enum"} \subseteq Keys(t.inputSchema.properties[f])
    /\ \A t \in Range(response.listed) : ArgumentSpecInvariant(t.inputSchema)

\* A request to a gated route (every POST, every GET but /health) that
\* fails the bearer check of a configured token.
GatedAndRefused ==
    /\ request.transport = "http"
    /\ API_TOKEN # ""
    /\ \/ request.method = "POST"
       \/ request.method = "GET" /\ request.path # "/health"
    /\ ~_check_auth(request.headers)

\* C24: with a token configured, a request to a gated route that fails the
\* bearer check is answered 401, and the handler did nothing but check and
\* answer: the check came first, the body was not read, execute_tool was
\* not invoked and no store tree was read.
RefusedBeforeAnythingElse ==
    GatedAndRefused =>
        /\ HttpStatus = 401
        /\ performed # << >> /\ Head(performed) = "_check_auth"
        /\ "rfile.read" \notin Range(performed)
        /\ "json.loads" \notin Range(performed)
        /\ "execute_tool" \notin Range(performed)
        /\ queried = {}

\* C24 witness: a POST /tools/call that names a registered operation in a
\* well-formed body, with a wrong token, was refused before anything else.
RefusedBeforeAnythingElseWitness ==
    /\ GatedAndRefused
    /\ request.method = "POST" /\ request.path = "/tools/call"
    /\ request.headers = [Authorization |-> "Bearer wrong"]
    /\ request.body = ObjectBody([name |-> "get_installation_sequence",
                                  arguments |-> Dict([environment_type |-> "production"])])
    /\ HttpStatus = 401
    /\ performed = <<"_check_auth", "_send_unauthorized">>
    /\ queried = {}

\* C25: a failure inside a handler never escapes. On stdio an exception
\* raised while handling a tool call is returned as a payload whose only
\* field is error; on HTTP an exception raised while parsing or executing
\* an authorized POST /tools/call is answered 500 with an error field.
FailureNeverEscapes ==
    /\ (StdioDispatch /\ raised) => Keys(StdioPayload) = {"error"}
    /\ (AuthorizedCall /\ raised) => (HttpStatus = 500 /\ "error" \in Keys(HttpBody))

\* A request to a gated route while a token is configured.
GatedWithToken ==
    /\ request.transport = "http"
    /\ API_TOKEN # ""
    /\ \/ request.method = "POST"
       \/ request.method = "GET" /\ request.path # "/health"

\* Header values that must not pass for the token s3cret: empty, another
\* scheme or casing, no token, a token with a character before or after
\* it, another token, the bare token.
NearMisses ==
    {"", "bearer s3cret", "Basic s3cret", "Bearer ", "Bearer s3cret ", "Bearer  s3cret",
     "Bearer wrong", "s3cret"}

\* C26: with a token T configured, a request to a gated route passes the
\* bearer check (is not answered 401) if and only if its Authorization
\* header is exactly "Bearer " followed by T; a request without the header
\* and every near miss of the header are answered 401.
BearerExactly ==
    GatedWithToken =>
        /\ HttpStatus # 401 <=> ValidBearer
        /\ "Authorization" \notin Keys(request.headers) => HttpStatus = 401
        /\ ("Authorization" \in Keys(request.headers)
                /\ request.headers.Authorization \in NearMisses) => HttpStatus = 401

\* C26 witness: with the token s3cret configured, a GET /tools whose header
\* names the scheme in lower case was refused.
BearerExactlyWitness ==
    /\ GatedWithToken
    /\ API_TOKEN = "s3cret"
    /\ request.method = "GET" /\ request.path = "/tools"
    /\ request.headers = [Authorization |-> "bearer s3cret"]
    /\ HttpStatus = 401
    /\ performed = <<"_check_auth", "_send_unauthorized">>

\* the names in a listing
NamesListed(listed) == {listed[i].name : i \in 1..Len(listed)}

\* C27: the listings and the dispatch tables agree. A call that names an
\* operation of list_tools (stdio) or of TOOLS (HTTP) is never answered
\* with the 'Unknown tool' payload; list_tools returns the names of TOOLS;
\* read_resource answers every URI of list_resources with a payload other
\* than 'not found'; get_prompt renders every name of list_prompts with
\* at least one message.
ListingsMatchDispatch ==
    /\ (StdioDispatch /\ request.name \in StdioToolNames) =>
          StdioPayload # StdioUnknownTool(request.name)
    /\ (HttpDispatch /\ DispatchName \in Range(TOOLS)) =>
          /\ HttpBody # [result |-> HttpUnknownTool(DispatchName)]
          /\ (HttpStatus = 200 => "error" \notin Keys(HttpBody.result))
    /\ request = ListRequest("list_tools") => NamesListed(response.listed) = Range(TOOLS)
    /\ (ResourceRead /\ request.uri \in ResourceUris) =>
          /\ response.text # ResourceNotFound(request.uri)
          /\ "error" \notin Keys(response.text)
    /\ (PromptRender /\ request.name \in PromptNames) =>
          response.prompt.messages # << >>

\* C27 witness: over HTTP a call of the last operation TOOLS lists, which
\* list_tools lists too, reached its branch of execute_tool and came back
\* 200 with a result that is not an error.
ListingsMatchDispatchWitness ==
    /\ HttpDispatch
    /\ DispatchName = TOOLS[Len(TOOLS)]
    /\ DispatchName \in StdioToolNames
    /\ HttpStatus = 200
    /\ "error" \notin Keys(HttpBody.result)
    /\ Range(TOOLS) = StdioToolNames

\* The operations whose branch of call_tool looks its arguments up in the
\* store (get_weblogic_configuration only echoes them).
KeyedOperations == DOMAIN StoreKeys \ {"get_weblogic_configuration"}

\* C28: every value of a schema enumeration that a resolver uses as a store
\* key (other than 'all') is a key of the tree the resolver reads: a stdio
\* call whose bag meets the schema finds each of its key-valued arguments
\* in the store, and so never takes the miss fallback.
EnumValuesAreStoreKeys ==
    (/\ StdioDispatch
     /\ request.name \in KeyedOperations
     /\ IsDict(request.arguments)
     /\ SchemaLegal(request.name, request.arguments.value)) =>
        \A f \in Keys(request.arguments.value) \cap Keys(StoreKeys[request.name]) :
            request.arguments.value[f] \in StoreKeys[request.name][f]

\* A stdio call of get_environment_configuration that carries a component.
ComponentSelected ==
    /\ StdioDispatch
    /\ request.name = "get_environment_configuration"
    /\ IsDict(request.arguments)
    /\ "component" \in Keys(request.arguments.value)

\* the tree the store holds for an environment; empty when it holds none
EnvironmentTreeOf(E) ==
    IF E \in Keys(store.ENVIRONMENT_CONFIG) THEN store.ENVIRONMENT_CONFIG[E] ELSE EmptyDict

\* C29: in stdio get_environment_configuration the component selects the
\* view: 'all' returns the whole environment tree under configuration;
\* 'data_sources' returns the environment's data_sources subtree, or an
\* empty mapping if it has none; any other component returns under data
\* the subtree stored under exactly that key when the environment has it,
\* and the whole environment tree otherwise.
ComponentSelectsView ==
    ComponentSelected =>
        LET E    == Get(request.arguments.value, "environment", None)
            C    == request.arguments.value.component
            tree == EnvironmentTreeOf(E)
        IN  /\ ~raised
            /\ C = "all" => StdioPayload = [environment |-> E, configuration |-> tree]
            /\ C = "data_sources" =>
                  StdioPayload =
                     [environment |-> E,
                      data_sources |-> IF "data_sources" \in Keys(tree)
                                       THEN tree["data_sources"] ELSE EmptyDict]
            /\ C \notin {"all", "data_sources"} =>
                  StdioPayload =
                     [environment |-> E, component |-> C,
                      data |-> IF C \in Keys(tree) THEN tree[C] ELSE tree]

\* C29 witness: the production environment was asked for path_codes, a key
\* it does not have (it has path_code), and the whole environment tree came
\* back under data.
ComponentSelectsViewWitness ==
    /\ ComponentSelected
    /\ request.arguments.value = [environment |-> "PD920_production", component |-> "path_codes"]
    /\ "path_codes" \notin Keys(store.ENVIRONMENT_CONFIG["PD920_production"])
    /\ "server_map" \in Keys(store.ENVIRONMENT_CONFIG["PD920_production"])
    /\ StdioPayload.data = store.ENVIRONMENT_CONFIG["PD920_production"]
    /\ StdioPayload.data # EmptyDict

\* A stdio call of research_server_manager_config with an argument object.
ServerManagerCall ==
    /\ StdioDispatch
    /\ request.name = "research_server_manager_config"
    /\ IsDict(request.arguments)

\* the tree the store holds for a configuration area; empty when it holds
\* none
AreaTreeOf(A) ==
    IF A \in Keys(store.SERVER_MANAGER_CONFIG) THEN store.SERVER_MANAGER_CONFIG[A] ELSE EmptyDict

\* C30: in stdio research_server_manager_config the configuration returned
\* is the subtree stored for (config_area, operation) when there is one,
\* otherwise the config_area's initial_setup subtree, otherwise an empty
\* mapping (also when the store has no such config_area); the operation
\* echoed is the one requested (initial_setup when none was), also when
\* the fallback was taken.
ServerManagerFallbackOrder ==
    ServerManagerCall =>
        LET A    == Get(request.arguments.value, "config_area", None)
            O    == Get(request.arguments.value, "operation", "initial_setup")
            area == AreaTreeOf(A)
        IN  /\ ~raised
            /\ Keys(StdioPayload) = {"config_area", "operation", "configuration"}
            /\ StdioPayload.config_area = A
            /\ StdioPayload.operation = O
            /\ StdioPayload.configuration =
                  IF O \in Keys(area) THEN area[O]
                  ELSE IF "initial_setup" \in Keys(area) THEN area["initial_setup"]
                  ELSE EmptyDict

\* C30 witness: the deployment server was asked for kernel_configuration,
\* which it does not have; its initial_setup came back and the operation
\* echoed is still kernel_configuration.
ServerManagerFallbackWitness ==
    /\ ServerManagerCall
    /\ request.arguments.value =
          [config_area |-> "deployment_server", operation |-> "kernel_configuration"]
    /\ "kernel_configuration" \notin Keys(store.SERVER_MANAGER_CONFIG["deployment_server"])
    /\ StdioPayload.operation = "kernel_configuration"
    /\ StdioPayload.configuration = store.SERVER_MANAGER_CONFIG["deployment_server"]["initial_setup"]
    /\ StdioPayload.configuration # EmptyDict

====
